---- MODULE Spec2Model ----
(***************************************************************************)
(* Model of hachoir_core.field.generic_field_set.GenericFieldSet: the      *)
(* lazy field-set driver (producer pulls, size accounting, auto-fix,       *)
(* reset, random-access edits).                                            *)
(*                                                                         *)
(* A field name is a sequence of one-character strings, so that the        *)
(* "[]" suffix test, the slice name[:-2] and the "[%u]" formatting are     *)
(* modelled by what they do.  Python's None is the integer -1 wherever     *)
(* the value is otherwise a size, a generator position or a count.         *)
(***************************************************************************)
EXTENDS Integers, Sequences, FiniteSets, TLC

None == -1

\* ------------------------------------------------------------------ bounds
\* longest producer (number of items a createFields() may yield)
MaxYield == 3
\* largest size, in bits, of a yielded leaf
MaxLeafSize == 2
\* largest argument of readMoreFields / readFirstFields
MaxPull == 2

\* ------------------------------------------------------------------ names
DigitChars == <<"0", "1", "2", "3", "4", "5", "6", "7", "8", "9">>

RECURSIVE FormatUInt(_)
\* "%u" % n : decimal rendering, most significant digit first
FormatUInt(n) ==
    IF n < 10 THEN <<DigitChars[n + 1]>>
    ELSE FormatUInt(n \div 10) \o <<DigitChars[(n % 10) + 1]>>

\* name.endswith("[]")
EndsWithBrackets(name) ==
    /\ Len(name) >= 2
    /\ name[Len(name) - 1] = "["
    /\ name[Len(name)] = "]"

\* the empty dict {}
EmptyDict == [k \in {} |-> 0]

\* setUniqueFieldName that steps the counter by two
setUniqueFieldNameSkip(count, name) ==
    LET key == SubSeq(name, 1, Len(name) - 2)
        c2  == IF key \in DOMAIN count
               THEN [count EXCEPT ![key] = @ + 2]
               ELSE (key :> 0) @@ count
    IN  [count |-> c2, name |-> key \o <<"[">> \o FormatUInt(c2[key]) \o <<"]">>]

\* GenericFieldSet.setUniqueFieldName: result is the new counter dict and the
\* new field name
setUniqueFieldName(count, name) ==
    LET key == SubSeq(name, 1, Len(name) - 2)
        c2  == IF key \in DOMAIN count
               THEN [count EXCEPT ![key] = @ + 1]
               ELSE (key :> 0) @@ count
    IN  [count |-> c2, name |-> key \o <<"[">> \o FormatUInt(c2[key]) \o <<"]">>]

\* ------------------------------------------------------------------ Dict
\* hachoir_core.dict.Dict, the ordered unique map holding the children: a
\* sequence of fields, keyed by their names.
DictKeys(fields) == {fields[i].name : i \in 1..Len(fields)}

DictHas(fields, name) == \E i \in 1..Len(fields) : fields[i].name = name

\* Dict.index(name), 0-based
DictIndex(fields, name) == (CHOOSE i \in 1..Len(fields) : fields[i].name = name) - 1

\* del dict[index], 0-based index
DictDelete(fields, index) ==
    SubSeq(fields, 1, index) \o SubSeq(fields, index + 2, Len(fields))

\* Dict.insert(index, key, value), 0-based index
DictInsert(fields, index, f) ==
    SubSeq(fields, 1, index) \o <<f>> \o SubSeq(fields, index + 1, Len(fields))

\* Dict.replace(oldkey, newkey, value): same index
DictReplace(fields, oldname, f) ==
    [fields EXCEPT ![DictIndex(fields, oldname) + 1] = f]

RECURSIVE SumSizes(_)
\* sum(field.size for field in fields)
SumSizes(fields) ==
    IF fields = <<>> THEN 0 ELSE fields[1].size + SumSizes(Tail(fields))

\* ------------------------------------------------------------------ fields
\* A stored child.  fs is the child's own field-set state when it is a
\* composite (is_field_set), NoFS for a leaf.  src records which yield of the
\* producer made the field (1-based), 0 for a field the driver or a caller made.
\* an EventHandler that is not made yet: the attribute is None
NoHandler == [made |-> FALSE, names |-> {}]

NoFS ==
    [fields |-> <<>>, current_size |-> 0, size |-> None, gen |-> None,
     prog |-> <<>>, count |-> EmptyDict, cache |-> {},
     event_handler |-> NoHandler, global_event_handler |-> NoHandler,
     stream |-> <<>>, endian |-> "BIG_ENDIAN"]

\* Field.__init__ of a leaf: address is the parent's current size
LeafField(name, address, size) ==
    [name |-> name, address |-> address, size |-> size,
     is_field_set |-> FALSE, fs |-> NoFS, src |-> 0]

\* the literal "raw[]"
RawName == <<"r", "a", "w", "[", "]">>

\* createRawField(parent, size, name): a raw leaf at the parent's current size
createRawField(fs, size, name) == LeafField(name, fs.current_size, size)

\* GenericFieldSet.__init__: no children, current size 0, fresh producer
NewFS(size, prog) ==
    [fields |-> <<>>, current_size |-> 0, size |-> size, gen |-> 0,
     prog |-> prog, count |-> EmptyDict, cache |-> {},
     event_handler |-> NoHandler, global_event_handler |-> NoHandler,
     stream |-> <<>>, endian |-> "BIG_ENDIAN"]

SetField(name, address, sub) ==
    [name |-> name, address |-> address, size |-> sub.size,
     is_field_set |-> TRUE, fs |-> sub, src |-> 0]

\* the field a producer item constructs: Class(self, "name", ...)
MakeField(item, address, src) ==
    IF item.kind = "set"
    THEN [SetField(item.name, address, NewFS(item.size, item.prog)) EXCEPT !.src = src]
    ELSE [LeafField(item.name, address, item.size) EXCEPT !.src = src]

\* ------------------------------------------------------------------ sizes
\* The chain self, parent, ..., root as seen by _checkSize: for each set its
\* _size and its _address.  up = [address, ancestors] places a set in its
\* ancestors.
Chain(fs, up) == <<[size |-> fs.size, address |-> up.address]>> \o up.ancestors

\* bits the underlying source really holds (InputStream.sizeGe probes it)
StreamBits == 4

sizeGe(n) == n <= StreamBits

RECURSIVE checkSizeWalk(_, _, _)
\* GenericFieldSet._checkSize: [none, err, v]; none is Python's None, err the
\* TypeError of None - size
checkSizeWalk(chain, size, strict) ==
    LET field == Head(chain) IN
    IF field.size # None
    THEN [none |-> FALSE, err |-> FALSE, v |-> field.size - size]
    ELSE IF Len(chain) = 1
         THEN IF ~strict THEN [none |-> TRUE, err |-> FALSE, v |-> 0]
              ELSE IF sizeGe(size) THEN [none |-> FALSE, err |-> FALSE, v |-> 0]
              ELSE [none |-> FALSE, err |-> TRUE, v |-> 0]
         ELSE checkSizeWalk(Tail(chain), size + field.address, strict)

checkSize(fs, up, size, strict) == checkSizeWalk(Chain(fs, up), size, strict)

\* GenericFieldSet.eof: [err, v]
eof(fs, up) ==
    LET d == checkSize(fs, up, fs.current_size + 1, TRUE)
    IN  [err |-> d.err, v |-> (~d.err /\ d.v < 0)]

\* ------------------------------------------------------------------ truncate
\* the loop of _truncate that drops no child
dropFromNone(fields, size) == fields

RECURSIVE dropFrom(_, _)
\* the loop of _truncate: drop trailing children whose address >= size
dropFrom(fields, size) ==
    IF fields = <<>> THEN fields
    ELSE IF fields[Len(fields)].address < size THEN fields
    ELSE dropFrom(DictDelete(fields, Len(fields) - 1), size)

RECURSIVE truncate(_, _)
\* GenericFieldSet._truncate: [fs, exc]
truncate(fs, size) ==
    IF ~(size > 0) THEN [fs |-> fs, exc |-> "AssertionError"]
    ELSE IF size < fs.current_size
    THEN LET kept == dropFrom(fs.fields, size) IN
         IF kept = <<>>
         THEN [fs |-> [fs EXCEPT !.size = size, !.fields = kept], exc |-> "Error"]
         ELSE
         LET field == kept[Len(kept)]
             fs1   == [fs EXCEPT !.size = size, !.fields = kept,
                                 !.current_size = field.address]
             rem   == size - field.address
         IN  IF rem < field.size
             THEN IF field.is_field_set
                  THEN LET t  == truncate(field.fs, rem)
                           f2 == [field EXCEPT !.fs = t.fs, !.size = t.fs.size]
                           fs2 == [fs1 EXCEPT !.fields[Len(kept)] = f2]
                       IN  IF t.exc # "none" THEN [fs |-> fs2, exc |-> t.exc]
                           ELSE [fs |-> [fs2 EXCEPT !.current_size = size, !.gen = None],
                                 exc |-> "none"]
                  ELSE LET front == DictDelete(kept, Len(kept) - 1)
                           fs2   == [fs1 EXCEPT !.fields = front]
                           raw   == createRawField(fs2, rem, RawName)
                       IN  IF DictHas(front, raw.name)
                           THEN [fs |-> fs2, exc |-> "Error"]
                           ELSE [fs |-> [fs2 EXCEPT !.fields = Append(front, raw),
                                                    !.current_size = size, !.gen = None],
                                 exc |-> "none"]
             ELSE [fs |-> [fs1 EXCEPT !.current_size = size, !.gen = None], exc |-> "none"]
    ELSE IF ~(fs.size = None \/ size < fs.size)
    THEN [fs |-> fs, exc |-> "AssertionError"]
    ELSE [fs |-> [fs EXCEPT !.size = size,
                            !.gen = IF size = fs.current_size THEN None ELSE @],
          exc |-> "none"]

\* ------------------------------------------------------------------ sealing
\* GenericFieldSet._deleteField(index): [fs, exc]
deleteField(fs, index) ==
    IF index < 0 \/ index >= Len(fs.fields)
    THEN [fs |-> fs, exc |-> "Error"]
    ELSE [fs |-> [fs EXCEPT !.current_size = @ - fs.fields[index + 1].size,
                            !.fields = DictDelete(@, index)],
          exc |-> "none"]

RECURSIVE deleteTooBig(_)
\* the loop of _fixLastField: while size < current_size, delete the last field
deleteTooBig(fs) ==
    IF fs.size < fs.current_size
    THEN LET d == deleteField(fs, Len(fs.fields) - 1)
         IN  IF d.exc # "none" THEN d ELSE deleteTooBig(d.fs)
    ELSE [fs |-> fs, exc |-> "none"]

\* a padding of one bit, whatever the slack
fixLastFieldPadOneBit(fs, size) ==
    IF DictHas(fs.fields, RawName)
    THEN [fs |-> [fs EXCEPT !.current_size = @ + 1], exc |-> "Error", val |-> <<>>]
    ELSE [fs |-> [fs EXCEPT !.current_size = @ + 1,
                            !.fields = Append(@, createRawField(fs, 1, RawName))],
          exc |-> "none", val |-> <<createRawField(fs, 1, RawName)>>]

\* lines 374-379: the padding of size bits added after the kept children
fixLastFieldPad(fs, size) ==
    IF DictHas(fs.fields, RawName)
    THEN [fs |-> [fs EXCEPT !.current_size = @ + size], exc |-> "Error", val |-> <<>>]
    ELSE [fs |-> [fs EXCEPT !.current_size = @ + size,
                            !.fields = Append(@, createRawField(fs, size, RawName))],
          exc |-> "none", val |-> <<createRawField(fs, size, RawName)>>]

\* lines 368-381: d is the outcome of the deletion loop
fixLastFieldDeleted(d) ==
    IF d.exc # "none" THEN [fs |-> d.fs, exc |-> d.exc, val |-> <<>>]
    ELSE IF d.fs.size - d.fs.current_size # 0
    THEN fixLastFieldPad(d.fs, d.fs.size - d.fs.current_size)
    ELSE [fs |-> d.fs, exc |-> "none", val |-> <<>>]

\* GenericFieldSet._fixLastField: [fs, exc, val]; val is <<>> for None, else
\* <<the padding field>>
fixLastField(fs) ==
    IF fs.size = None THEN [fs |-> fs, exc |-> "AssertionError", val |-> <<>>]
    ELSE fixLastFieldDeleted(deleteTooBig([fs EXCEPT !.gen = None]))

\* _stopFeeding that seals without comparing current_size with size
stopFeedingUnchecked(fs, up, autofix) ==
    [fs |-> [fs EXCEPT !.size = IF @ = None /\ up.ancestors # <<>>
                                 THEN fs.current_size ELSE @,
                       !.gen = None],
     exc |-> "none", val |-> <<>>]

\* _stopFeeding that gives a root its current size too
stopFeedingSized(fs, up, autofix) ==
    IF fs.size = None
    THEN [fs |-> [fs EXCEPT !.size = fs.current_size, !.gen = None],
          exc |-> "none", val |-> <<>>]
    ELSE IF fs.size # fs.current_size
    THEN IF autofix
         THEN [fs |-> [fixLastField(fs).fs EXCEPT !.gen = None],
               exc |-> fixLastField(fs).exc, val |-> fixLastField(fs).val]
         ELSE [fs |-> fs, exc |-> "Error", val |-> <<>>]
    ELSE [fs |-> [fs EXCEPT !.gen = None], exc |-> "none", val |-> <<>>]

\* lines 393-396: r is the outcome of _fixLastField
stopFeedingFixed(r) ==
    IF r.exc # "none" THEN r
    ELSE [fs |-> [r.fs EXCEPT !.gen = None], exc |-> "none", val |-> r.val]

\* GenericFieldSet._stopFeeding: [fs, exc, val]
stopFeeding(fs, up, autofix) ==
    IF fs.size = None
    THEN [fs |-> [fs EXCEPT !.size = IF up.ancestors # <<>> THEN fs.current_size ELSE @,
                            !.gen = None],
          exc |-> "none", val |-> <<>>]
    ELSE IF fs.size # fs.current_size
    THEN IF autofix
         THEN stopFeedingFixed(fixLastField(fs))
         ELSE [fs |-> fs, exc |-> "Error", val |-> <<>>]
    ELSE [fs |-> [fs EXCEPT !.gen = None], exc |-> "none", val |-> <<>>]

\* _fixFeedError that gives up whatever the configuration
fixFeedErrorNever(fs, autofix) ==
    [fs |-> fs, exc |-> "none", fixed |-> FALSE, val |-> <<>>]

\* lines 406-407: r is the outcome of _fixLastField
fixFeedErrorFixed(r) ==
    [fs |-> r.fs, exc |-> r.exc, fixed |-> TRUE, val |-> r.val]

\* GenericFieldSet._fixFeedError: [fs, exc, fixed, val]; fixed = FALSE is the
\* returned False
fixFeedError(fs, autofix) ==
    IF fs.size = None \/ ~autofix
    THEN [fs |-> fs, exc |-> "none", fixed |-> FALSE, val |-> <<>>]
    ELSE fixFeedErrorFixed(fixLastField(fs))

\* ------------------------------------------------------------------ producer
RECURSIVE addField(_, _, _, _)
RECURSIVE feedLoop(_, _, _)
RECURSIVE readMoreLoop(_, _, _, _, _)

\* The yield of a composite f0 whose first pre children the producer has
\* read, r being what reading them gave; an error there, or a child that is
\* missing (MissingField), ends the generator.
genYieldSet(fs, f0, r, pre) ==
    IF r.exc # "none" \/ Len(r.fs.fields) < pre
    THEN [fs |-> [fs EXCEPT !.gen = Len(fs.prog)], out |-> "Error", field |-> <<>>]
    ELSE [fs |-> [fs EXCEPT !.gen = @ + 1], out |-> "yield",
          field |-> <<[f0 EXCEPT !.fs = r.fs, !.size = r.fs.size]>>]

\* A producer step that constructs the composite f0, reads its first item.pre
\* children and yields it.
genSet(fs, up, autofix, item, f0) ==
    genYieldSet(fs, f0,
        IF item.pre > 0
        THEN readMoreLoop(f0.fs, [address |-> f0.address, ancestors |-> Chain(fs, up)],
                          autofix, item.pre, 0)
        ELSE [fs |-> f0.fs, exc |-> "none", added |-> 0],
        item.pre)

\* One producer step: raise, or construct a field at the current size and
\* yield it.
genItem(fs, up, autofix, item) ==
    IF item.kind = "err"
    THEN [fs |-> [fs EXCEPT !.gen = Len(fs.prog)], out |-> "Error", field |-> <<>>]
    ELSE IF item.kind = "set"
    THEN genSet(fs, up, autofix, item, MakeField(item, fs.current_size, fs.gen + 1))
    ELSE [fs |-> [fs EXCEPT !.gen = @ + 1], out |-> "yield",
          field |-> <<MakeField(item, fs.current_size, fs.gen + 1)>>]

\* the loop whose children hold no bit
genWhileNoBits(fs, body, e, y) ==
    IF e.err \/ e.v \/ y.out # "yield"
    THEN [fs |-> [fs EXCEPT !.gen = Len(fs.prog)], out |-> "StopIteration",
          field |-> <<>>]
    ELSE [fs |-> fs, out |-> "yield",
          field |-> <<LeafField(y.field[1].name, fs.current_size, 0)>>]

\* A producer at "while not self.eof: yield child", the last statement of
\* createFields (AtomList, MovFile, ArchiveFile): e is what self.eof gave and
\* y the step that constructs and yields the child, after which the producer
\* is at the loop test again
genWhile(fs, body, e, y) ==
    IF e.err THEN [fs |-> [fs EXCEPT !.gen = Len(fs.prog)], out |-> "Error", field |-> <<>>]
    ELSE IF e.v
    THEN [fs |-> [fs EXCEPT !.gen = Len(fs.prog)], out |-> "StopIteration",
          field |-> <<>>]
    ELSE IF y.out = "yield" THEN [y EXCEPT !.fs.gen = fs.gen]
    ELSE y

\* self._field_generator.next(), one step of createFields(): [fs, out, field].
\* gen counts the items already yielded; a generator that raised, or ran off
\* its end, is finished.  An item with pre > 0 is a composite whose first pre
\* children the producer reads before it yields the composite.
genNext(fs, up, autofix) ==
    IF fs.gen >= Len(fs.prog)
    THEN [fs |-> fs, out |-> "StopIteration", field |-> <<>>]
    ELSE IF fs.prog[fs.gen + 1].kind = "while"
    THEN genWhile(fs, fs.prog[fs.gen + 1].prog, eof(fs, up),
                  genItem(fs, up, autofix,
                          fs.prog[fs.gen + 1].prog[
                              (Len(fs.fields) % Len(fs.prog[fs.gen + 1].prog)) + 1]))
    ELSE genItem(fs, up, autofix, fs.prog[fs.gen + 1])

\* ------------------------------------------------------------------ _addField
\* _fixFieldSize that lets the field through as it is
fixFieldSizeKeep(fs, field, new_size) ==
    [fs |-> fs, field |-> field, exc |-> "none"]

\* _fixFieldSize that drops a composite child as it drops a leaf
fixFieldSizeDrop(fs, field, new_size) ==
    IF new_size > 0 /\ fs.size = None
    THEN [fs |-> [fs EXCEPT !.size = fs.current_size + new_size], field |-> field,
          exc |-> "StopIteration"]
    ELSE [fs |-> fs, field |-> field, exc |-> "StopIteration"]

\* field._truncate(new_size) done, t being its outcome
fixFieldSizeTruncated(fs, field, t) ==
    [fs |-> fs, field |-> [field EXCEPT !.fs = t.fs, !.size = t.fs.size], exc |-> t.exc]

\* GenericFieldSet._fixFieldSize: [fs, field, exc]
fixFieldSize(fs, field, new_size) ==
    IF new_size > 0 /\ field.is_field_set /\ 0 < field.size
    THEN fixFieldSizeTruncated(fs, field, truncate(field.fs, new_size))
    ELSE IF new_size > 0 /\ fs.size = None
    THEN [fs |-> [fs EXCEPT !.size = fs.current_size + new_size], field |-> field,
          exc |-> "StopIteration"]
    ELSE [fs |-> fs, field |-> field, exc |-> "StopIteration"]

\* an append that puts the field in front of the stored children
appendUniqueFront(fs, field) ==
    IF DictHas(fs.fields, field.name) THEN [fs |-> fs, exc |-> "Error"]
    ELSE [fs |-> [fs EXCEPT !.fields = <<field>> \o @], exc |-> "none"]

\* lines 286-288: the field renamed by setUniqueFieldName to u.name is
\* appended, outside any try
appendRenamed(fs, field, u) ==
    IF DictHas(fs.fields, u.name)
    THEN [fs |-> [fs EXCEPT !.count = u.count], exc |-> "Error"]
    ELSE [fs |-> [fs EXCEPT !.count = u.count,
                            !.fields = Append(@, [field EXCEPT !.name = u.name])],
          exc |-> "none"]

\* self._fields.append(field._name, field) with the UniqKeyError handler of
\* _addField: [fs, exc]
appendUnique(fs, field) ==
    IF ~DictHas(fs.fields, field.name)
    THEN [fs |-> [fs EXCEPT !.fields = Append(@, field)], exc |-> "none"]
    ELSE appendRenamed(fs, field,
                       setUniqueFieldName(fs.count, field.name \o <<"[", "]">>))

\* the field with the state and the size its own feed r left it
fieldSizeFed(field, r) ==
    [field |-> [field EXCEPT !.fs = r.fs, !.size = r.fs.size], exc |-> r.exc]

\* field.size that reads one child of a composite of unknown size and takes
\* the bits read so far for its size
fieldSizeOneRound(field, childUp, autofix) ==
    IF field.is_field_set /\ field.fs.size = None /\ field.fs.gen # None
    THEN [field |-> [field EXCEPT
                        !.fs = readMoreLoop(field.fs, childUp, autofix, 1, 0).fs,
                        !.size = readMoreLoop(field.fs, childUp, autofix, 1, 0).fs.current_size],
          exc |-> readMoreLoop(field.fs, childUp, autofix, 1, 0).exc]
    ELSE [field |-> field, exc |-> "none"]

\* field.size of a yielded field (Field.size, GenericFieldSet._getSize, which
\* feeds a composite of unknown size completely): [field, exc]
fieldSize(field, childUp, autofix) ==
    IF field.is_field_set /\ field.fs.size = None
    THEN fieldSizeFed(field,
             IF field.fs.gen = None THEN [fs |-> field.fs, exc |-> "none"]
             ELSE feedLoop(field.fs, childUp, autofix))
    ELSE [field |-> field, exc |-> "none"]

\* line 272: field.size read again after field._stopFeeding()
querySizeAgain(q2) == [field |-> q2.field, exc |-> q2.exc, ask_stop |-> TRUE]

\* lines 267-268: field._stopFeeding() done, s being its outcome
querySizeStopped(field, s, childUp, autofix) ==
    IF s.exc # "none"
    THEN [field |-> [field EXCEPT !.fs = s.fs, !.size = s.fs.size], exc |-> s.exc,
          ask_stop |-> FALSE]
    ELSE IF s.fs.size = None
    THEN querySizeAgain(fieldSize([field EXCEPT !.fs = s.fs, !.size = s.fs.size],
                                  childUp, autofix))
    ELSE [field |-> [field EXCEPT !.fs = s.fs, !.size = s.fs.size], exc |-> "none",
          ask_stop |-> TRUE]

\* line 266: field.eof read, e being its outcome
querySizeEof(field, e, childUp, autofix) ==
    IF e.err \/ ~e.v THEN [field |-> field, exc |-> "Error", ask_stop |-> FALSE]
    ELSE querySizeStopped(field, stopFeeding(field.fs, childUp, autofix), childUp,
                          autofix)

\* lines 263-271: the except branch, q being the outcome of field.size
querySizeGot(q, childUp, autofix) ==
    IF q.exc = "none" THEN [field |-> q.field, exc |-> "none", ask_stop |-> FALSE]
    ELSE IF q.exc # "Error" THEN [field |-> q.field, exc |-> q.exc, ask_stop |-> FALSE]
    ELSE IF ~(q.field.is_field_set /\ Len(q.field.fs.fields) # 0)
    THEN [field |-> q.field, exc |-> "Error", ask_stop |-> FALSE]
    ELSE querySizeEof(q.field, eof(q.field.fs, childUp), childUp, autofix)

\* lines 261-271 of _addField: the size query and its except branch:
\* [field, exc, ask_stop]
querySize(field, childUp, autofix) ==
    querySizeGot(fieldSize(field, childUp, autofix), childUp, autofix)

\* lines 289-290: a is the outcome of the append
addFieldDone(a, ask_stop) ==
    IF a.exc # "none" THEN a
    ELSE IF ask_stop THEN [fs |-> a.fs, exc |-> "StopIteration"]
    ELSE a

\* lines 281-290: _current_size grows, then the field is appended
addFieldAppend(fs, field, ask_stop) ==
    addFieldDone(appendUnique([fs EXCEPT !.current_size = @ + field.size], field),
                 ask_stop)

\* line 277 done, x being the outcome of _fixFieldSize
addFieldFixed(x, ask_stop) ==
    IF x.exc # "none" THEN [fs |-> x.fs, exc |-> x.exc]
    ELSE addFieldAppend(x.fs, x.field, ask_stop)

\* lines 274-279: "No more place?", dsize being what _checkSize returned
addFieldChecked(fs, autofix, q, dsize) ==
    IF ~((~dsize.none /\ dsize.v < 0) \/ (q.field.is_field_set /\ q.field.size <= 0))
    THEN addFieldAppend(fs, q.field, q.ask_stop)
    ELSE IF ~autofix \/ dsize.none THEN [fs |-> fs, exc |-> "Error"]
    ELSE addFieldFixed(fixFieldSize(fs, q.field, q.field.size + dsize.v), q.ask_stop)

\* line 272 on: q is the outcome of the size query
addFieldSized(fs, up, autofix, q) ==
    IF q.exc # "none" THEN [fs |-> fs, exc |-> q.exc]
    ELSE addFieldChecked(fs, autofix, q,
                         checkSize(fs, up, q.field.address + q.field.size, FALSE))

\* lines 257-259: the field placed at _current_size, then its size queried
addFieldAt(fs, up, field, autofix) ==
    addFieldSized(fs, up, autofix,
                  querySize(field,
                            [address |-> field.address, ancestors |-> Chain(fs, up)],
                            autofix))

\* lines 255-259: u is the field's name and the counters after
\* setUniqueFieldName, if the name ended with "[]"
addFieldNamed(fs, up, f0, autofix, u) ==
    addFieldAt([fs EXCEPT !.count = u.count], up,
               [f0 EXCEPT !.name = u.name, !.address = fs.current_size], autofix)

\* GenericFieldSet._addField: [fs, exc]; exc is "none", "StopIteration",
\* "Error" (one of HACHOIR_ERRORS) or "AssertionError"
addField(fs, up, f0, autofix) ==
    addFieldNamed(fs, up, f0, autofix,
                  IF EndsWithBrackets(f0.name)
                  THEN setUniqueFieldName(fs.count, f0.name)
                  ELSE [count |-> fs.count, name |-> f0.name])

\* the except StopIteration clause: s is the outcome of _stopFeeding
pullStopped(s) ==
    IF s.exc # "none"
    THEN [fs |-> s.fs, out |-> "raise", val |-> <<>>, exc |-> s.exc]
    ELSE [fs |-> s.fs, out |-> "stopped", val |-> s.val, exc |-> "none"]

\* the except HACHOIR_ERRORS clause: e is the outcome of _fixFeedError
pullFixed(e) ==
    IF e.exc # "none"
    THEN [fs |-> e.fs, out |-> "raise", val |-> <<>>, exc |-> e.exc]
    ELSE IF ~e.fixed
    THEN [fs |-> e.fs, out |-> "raise", val |-> <<>>, exc |-> "Error"]
    ELSE [fs |-> e.fs, out |-> "fixed", val |-> e.val, exc |-> "none"]

\* the except clauses of the loop: a is what the try block gave
pullAdded(a, up, autofix) ==
    IF a.exc = "none" THEN [fs |-> a.fs, out |-> "ok", val |-> <<>>, exc |-> "none"]
    ELSE IF a.exc = "StopIteration" THEN pullStopped(stopFeeding(a.fs, up, autofix))
    ELSE IF a.exc = "Error" THEN pullFixed(fixFeedError(a.fs, autofix))
    ELSE [fs |-> a.fs, out |-> "raise", val |-> <<>>, exc |-> a.exc]

\* the try block: n is what the generator gave, a yielded field is added
pullNext(n, up, autofix) ==
    pullAdded(IF n.out = "yield" THEN addField(n.fs, up, n.field[1], autofix)
              ELSE [fs |-> n.fs, exc |-> n.out],
              up, autofix)

\* One round of the loop shared by _feedUntil, readMoreFields and _feedAll,
\* and of the while loop of __iter__: next() on the generator, _addField, and
\* the except clauses: [fs, out, val, exc].  out is "ok" (a child was added),
\* "stopped" (StopIteration; val the padding _stopFeeding added, if any),
\* "fixed" (an error fixed by _fixFeedError; val its padding, if any) or
\* "raise" (exc leaves the method).
pull(fs, up, autofix) == pullNext(genNext(fs, up, autofix), up, autofix)

\* p is the outcome of one round of _feedAll
feedLoopPulled(p, up, autofix) ==
    IF p.out = "ok" THEN feedLoop(p.fs, up, autofix)
    ELSE [fs |-> p.fs, exc |-> p.exc]

\* the loop of GenericFieldSet._feedAll: [fs, exc]
feedLoop(fs, up, autofix) == feedLoopPulled(pull(fs, up, autofix), up, autofix)

\* GenericFieldSet._feedAll: [fs, exc]
feedAll(fs, up, autofix) ==
    IF fs.gen = None THEN [fs |-> fs, exc |-> "none"]
    ELSE feedLoop(fs, up, autofix)

\* ------------------------------------------------------------------ pulls
RECURSIVE feedUntilLoop(_, _, _, _)
\* a round of _feedUntil that does not look at the name of the child it added
feedUntilPulledOn(p, up, autofix, field_name) ==
    IF p.out = "ok" THEN feedUntilLoop(p.fs, up, autofix, field_name)
    ELSE [fs |-> p.fs, exc |-> p.exc, val |-> <<>>]

\* p is the outcome of one round of _feedUntil
feedUntilPulled(p, up, autofix, field_name) ==
    IF p.out = "ok"
    THEN IF p.fs.fields[Len(p.fs.fields)].name = field_name
         THEN [fs |-> p.fs, exc |-> "none", val |-> <<p.fs.fields[Len(p.fs.fields)]>>]
         ELSE feedUntilLoop(p.fs, up, autofix, field_name)
    ELSE [fs |-> p.fs, exc |-> p.exc, val |-> <<>>]

\* GenericFieldSet._feedUntil: [fs, exc, val]; val is <<the field>> or <<>>
feedUntilLoop(fs, up, autofix, field_name) ==
    feedUntilPulled(pull(fs, up, autofix), up, autofix, field_name)

feedUntil(fs, up, autofix, field_name) == feedUntilLoop(fs, up, autofix, field_name)

\* p is the outcome of one round of readMoreFields
readMorePulled(p, up, autofix, number, added) ==
    IF p.out = "ok" THEN readMoreLoop(p.fs, up, autofix, number - 1, added + 1)
    ELSE IF p.out = "fixed" THEN [fs |-> p.fs, exc |-> "none", added |-> added + 1]
    ELSE IF p.out = "stopped"
    THEN [fs |-> p.fs, exc |-> "none",
          added |-> IF p.val # <<>> THEN added + 1 ELSE added]
    ELSE [fs |-> p.fs, exc |-> p.exc, added |-> added]

\* the for loop of readMoreFields with its except clauses: [fs, exc, added]
readMoreLoop(fs, up, autofix, number, added) ==
    IF number <= 0 THEN [fs |-> fs, exc |-> "none", added |-> added]
    ELSE readMorePulled(pull(fs, up, autofix), up, autofix, number, added)

\* readMoreFields that closes the set once it has read number fields
readMoreFieldsThenSeal(fs, up, autofix, number) ==
    IF fs.gen = None THEN [fs |-> fs, exc |-> "none", added |-> 0]
    ELSE [readMoreLoop(fs, up, autofix, number, 0) EXCEPT !.fs.gen = None]

\* GenericFieldSet.readMoreFields: [fs, exc, added]
readMoreFields(fs, up, autofix, number) ==
    IF fs.gen = None THEN [fs |-> fs, exc |-> "none", added |-> 0]
    ELSE readMoreLoop(fs, up, autofix, number, 0)

\* GenericFieldSet.readFirstFields: [fs, exc, added]; added is None for the
\* bare return
readFirstFields(fs, up, autofix, number) ==
    IF fs.gen = None THEN [fs |-> fs, exc |-> "none", added |-> None]
    ELSE IF 0 < number - Len(fs.fields)
    THEN readMoreFields(fs, up, autofix, number - Len(fs.fields))
    ELSE [fs |-> fs, exc |-> "none", added |-> 0]

\* GenericFieldSet._getField(name, const) for a plain name: [fs, exc, val]
getFieldByName(fs, up, autofix, name, const) ==
    IF DictHas(fs.fields, name)
    THEN [fs |-> fs, exc |-> "none", val |-> <<fs.fields[DictIndex(fs.fields, name) + 1]>>]
    ELSE IF fs.gen # None /\ ~const THEN feedUntil(fs, up, autofix, name)
    ELSE [fs |-> fs, exc |-> "none", val |-> <<>>]

\* line 319: self._fields.values[key], r being the outcome of
\* readFirstFields
getFieldRead(r, key) ==
    IF r.exc # "none" THEN [fs |-> r.fs, exc |-> r.exc, val |-> <<>>]
    ELSE IF key < Len(r.fs.fields)
    THEN [fs |-> r.fs, exc |-> "none", val |-> <<r.fs.fields[key + 1]>>]
    ELSE [fs |-> r.fs, exc |-> "IndexError", val |-> <<>>]

\* GenericFieldSet.getField(key, const) for an integer key: [fs, exc, val]
getFieldByIndex(fs, up, autofix, key, const) ==
    IF key < 0 THEN [fs |-> fs, exc |-> "KeyError", val |-> <<>>]
    ELSE getFieldRead(IF const THEN [fs |-> fs, exc |-> "none"]
                      ELSE readFirstFields(fs, up, autofix, key + 1),
                      key)

\* line 202: len(self._fields), r being the outcome of _feedAll
lenFed(r) == [fs |-> r.fs, exc |-> r.exc, n |-> Len(r.fs.fields)]

\* GenericFieldSet.__len__: [fs, exc, n]
len(fs, up, autofix) == lenFed(feedAll(fs, up, autofix))

\* line 212: self._size, r being the outcome of _feedAll
getSizeFed(r) == [fs |-> r.fs, exc |-> r.exc, n |-> r.fs.size]

\* GenericFieldSet._getSize: [fs, exc, n]
getSize(fs, up, autofix) ==
    getSizeFed(IF fs.size = None THEN feedAll(fs, up, autofix)
               ELSE [fs |-> fs, exc |-> "none"])

\* GenericFieldSet.array(key): the FakeArray of key is made once and kept in
\* _array_cache, modelled as the set of the keys that have one
array(fs, key) == [fs EXCEPT !.cache = @ \cup {key}]

\* reset that leaves the array counters as they are
resetKeepCount(fs) ==
    [fs EXCEPT !.fields = <<>>, !.gen = 0, !.current_size = 0, !.cache = {}]

\* reset that leaves _current_size as it is
resetKeepCurrentSize(fs) ==
    [fs EXCEPT !.fields = <<>>, !.gen = 0, !.count = EmptyDict, !.cache = {}]

\* GenericFieldSet.reset
reset(fs) ==
    [fs EXCEPT !.fields = <<>>, !.gen = 0, !.count = EmptyDict,
               !.current_size = 0, !.cache = {}]

\* ------------------------------------------------------------------ edits
\* EventHandler.connect(event_name, handler) on a handler made if need be
connected(h, event_name) == [made |-> TRUE, names |-> h.names \cup {event_name}]

\* GenericFieldSet.connectEvent(event_name, handler, local);
\* global_event_handler is self.root._global_event_handler
connectEvent(fs, event_name, local) ==
    IF local THEN [fs EXCEPT !.event_handler = connected(@, event_name)]
    ELSE [fs EXCEPT !.global_event_handler = connected(@, event_name)]

\* EventHandler.raiseEvent(event_name, *args): the calls made to the handlers
\* connected to event_name.  at is the index the field the event is about,
\* args[2], has in the set when the event is raised, None if it is not there.
delivered(fs, h, to, event_name, args) ==
    IF h.made /\ event_name \in h.names
    THEN <<[to |-> to, event |-> event_name, args |-> args,
            at |-> IF DictHas(fs.fields, args[2]) THEN DictIndex(fs.fields, args[2])
                   ELSE None]>>
    ELSE <<>>

\* raiseEvent that tells the global listeners first
raiseEventGlobalFirst(fs, event_name, args) ==
    delivered(fs, fs.global_event_handler, "global", event_name, args)
        \o delivered(fs, fs.event_handler, "local", event_name, args)

\* GenericFieldSet.raiseEvent: the calls it makes, in order
raiseEvent(fs, event_name, args) ==
    delivered(fs, fs.event_handler, "local", event_name, args)
        \o delivered(fs, fs.global_event_handler, "global", event_name, args)

\* r, the calls ev having been made before it
afterEvents(ev, r) == [fs |-> r.fs, exc |-> r.exc, events |-> ev \o r.events]

RECURSIVE replaceRest(_, _, _, _)
\* lines 583-586: the field called name is in the set at index; the event is
\* raised and the loop goes on
replaceInserted(fs, new_fields, index, address, name) ==
    afterEvents(raiseEvent(fs, "field-insered", <<index, name>>),
                replaceRest(fs, Tail(new_fields), index + 1,
                            address + new_fields[1].size))

\* lines 576-583: u is the name of the field and the counters after
\* setUniqueFieldName
replaceInsert(fs, new_fields, index, address, u) ==
    IF DictHas(fs.fields, u.name)
    THEN [fs |-> [fs EXCEPT !.count = u.count], exc |-> "Error", events |-> <<>>]
    ELSE replaceInserted([fs EXCEPT !.count = u.count,
                                    !.fields = DictInsert(@, index,
                                        LeafField(u.name, address, new_fields[1].size))],
                         new_fields, index, address, u.name)

\* the loop of replaceField over new_fields[1:]: [fs, exc, events]
replaceRest(fs, new_fields, index, address) ==
    IF new_fields = <<>> THEN [fs |-> fs, exc |-> "none", events |-> <<>>]
    ELSE replaceInsert(fs, new_fields, index, address,
                       IF EndsWithBrackets(new_fields[1].name)
                       THEN setUniqueFieldName(fs.count, new_fields[1].name)
                       ELSE [count |-> fs.count, name |-> new_fields[1].name])

\* replaceField that does not look whether the first new name is already used
replaceFieldUnchecked(fs, name, new_fields) ==
    IF ~DictHas(fs.fields, name) THEN [fs |-> fs, exc |-> "Error"]
    ELSE IF ~(1 <= Len(new_fields)) THEN [fs |-> fs, exc |-> "AssertionError"]
    ELSE
    LET old_field == fs.fields[DictIndex(fs.fields, name) + 1] IN
    IF old_field.size # SumSizes(new_fields) THEN [fs |-> fs, exc |-> "Error"]
    ELSE
    LET item  == new_fields[1]
        u     == IF EndsWithBrackets(item.name)
                 THEN setUniqueFieldName(fs.count, item.name)
                 ELSE [count |-> fs.count, name |-> item.name]
        fs1   == [fs EXCEPT !.count = u.count]
        field == LeafField(u.name, old_field.address, item.size)
    IN  replaceRest([fs1 EXCEPT !.fields = DictReplace(@, name, field)],
                    Tail(new_fields), DictIndex(fs1.fields, name) + 1,
                    field.address + field.size)

\* replaceField that does not compare the sizes
replaceFieldAnySize(fs, name, new_fields) ==
    IF ~DictHas(fs.fields, name) THEN [fs |-> fs, exc |-> "Error"]
    ELSE IF ~(1 <= Len(new_fields)) THEN [fs |-> fs, exc |-> "AssertionError"]
    ELSE
    LET old_field == fs.fields[DictIndex(fs.fields, name) + 1]
        item  == new_fields[1]
        u     == IF EndsWithBrackets(item.name)
                 THEN setUniqueFieldName(fs.count, item.name)
                 ELSE [count |-> fs.count, name |-> item.name]
        fs1   == [fs EXCEPT !.count = u.count]
        field == LeafField(u.name, old_field.address, item.size)
    IN
    IF u.name # name /\ DictHas(fs1.fields, u.name) THEN [fs |-> fs1, exc |-> "Error"]
    ELSE replaceRest([fs1 EXCEPT !.fields = DictReplace(@, name, field)],
                     Tail(new_fields), DictIndex(fs1.fields, name) + 1,
                     field.address + field.size)

\* replaceField that puts the first new field at address 0
replaceFieldAtZero(fs, name, new_fields) ==
    IF ~DictHas(fs.fields, name) THEN [fs |-> fs, exc |-> "Error"]
    ELSE IF ~(1 <= Len(new_fields)) THEN [fs |-> fs, exc |-> "AssertionError"]
    ELSE
    LET old_field == fs.fields[DictIndex(fs.fields, name) + 1] IN
    IF old_field.size # SumSizes(new_fields) THEN [fs |-> fs, exc |-> "Error"]
    ELSE
    LET item  == new_fields[1]
        u     == IF EndsWithBrackets(item.name)
                 THEN setUniqueFieldName(fs.count, item.name)
                 ELSE [count |-> fs.count, name |-> item.name]
        fs1   == [fs EXCEPT !.count = u.count]
        field == LeafField(u.name, 0, item.size)
    IN
    IF u.name # name /\ DictHas(fs1.fields, u.name) THEN [fs |-> fs1, exc |-> "Error"]
    ELSE replaceRest([fs1 EXCEPT !.fields = DictReplace(@, name, field)],
                     Tail(new_fields), DictIndex(fs1.fields, name) + 1,
                     field.address + field.size)

\* lines 568-584: the first new field takes the place of the old one, the
\* event is raised, and the other new fields are inserted after it
replaceFirst(fs, name, new_fields, old_field, new_name) ==
    afterEvents(raiseEvent([fs EXCEPT !.fields = DictReplace(@, name,
                                 LeafField(new_name, old_field.address,
                                           new_fields[1].size))],
                           "field-replaced", <<name, new_name>>),
                replaceRest([fs EXCEPT !.fields = DictReplace(@, name,
                                 LeafField(new_name, old_field.address,
                                           new_fields[1].size))],
                            Tail(new_fields), DictIndex(fs.fields, name) + 1,
                            old_field.address + new_fields[1].size))

\* GenericFieldSet.replaceField(name, new_fields), new_fields being leaves
\* given by name and size: [fs, exc, events]
replaceField(fs, name, new_fields) ==
    IF ~DictHas(fs.fields, name) THEN [fs |-> fs, exc |-> "Error", events |-> <<>>]
    ELSE IF ~(1 <= Len(new_fields))
    THEN [fs |-> fs, exc |-> "AssertionError", events |-> <<>>]
    ELSE
    LET old_field  == fs.fields[DictIndex(fs.fields, name) + 1]
        total_size == SumSizes(new_fields)
    IN
    IF old_field.size # total_size THEN [fs |-> fs, exc |-> "Error", events |-> <<>>]
    ELSE
    LET item  == new_fields[1]
        u     == IF EndsWithBrackets(item.name)
                 THEN setUniqueFieldName(fs.count, item.name)
                 ELSE [count |-> fs.count, name |-> item.name]
        fs1   == [fs EXCEPT !.count = u.count]
    IN
    IF u.name # name /\ DictHas(fs1.fields, u.name)
    THEN [fs |-> fs1, exc |-> "Error", events |-> <<>>]
    ELSE replaceFirst(fs1, name, new_fields, old_field, u.name)

\* createPaddingField(self, size) as replaceField takes it: a leaf, by its
\* default name "padding[]" and its size
createPaddingField(size) ==
    [kind |-> "leaf", name |-> <<"p", "a", "d", "d", "i", "n", "g", "[", "]">>,
     size |-> size, prog |-> <<>>, pre |-> 0]

\* lines 611-615 and 624-630: a padding of size bits if that is positive
paddingIf(size) == IF 0 < size THEN <<createPaddingField(size)>> ELSE <<>>

\* line 633: replaceField called with the list replace: [fs, exc, events, replace]
writeReplace(r, replace) ==
    [fs |-> r.fs, exc |-> r.exc, events |-> r.events, replace |-> replace]

\* writeFieldsIn that puts no padding after the new fields
writeFieldsInNoTail(fs, old_field, address, new_fields) ==
    IF old_field.size < SumSizes(new_fields)
    THEN [fs |-> fs, exc |-> "Error", events |-> <<>>, replace |-> <<>>]
    ELSE IF ~(0 <= address - old_field.address)
    THEN [fs |-> fs, exc |-> "AssertionError", events |-> <<>>, replace |-> <<>>]
    ELSE IF ~(0 <= (old_field.address + old_field.size)
                       - (address + SumSizes(new_fields)))
    THEN [fs |-> fs, exc |-> "AssertionError", events |-> <<>>, replace |-> <<>>]
    ELSE writeReplace(
             replaceField(fs, old_field.name,
                          paddingIf(address - old_field.address) \o new_fields),
             paddingIf(address - old_field.address) \o new_fields)

\* GenericFieldSet.writeFieldsIn(old_field, address, new_fields), new_fields
\* being leaves given by name and size: [fs, exc, events, replace]
writeFieldsIn(fs, old_field, address, new_fields) ==
    IF old_field.size < SumSizes(new_fields)
    THEN [fs |-> fs, exc |-> "Error", events |-> <<>>, replace |-> <<>>]
    ELSE IF ~(0 <= address - old_field.address)
    THEN [fs |-> fs, exc |-> "AssertionError", events |-> <<>>, replace |-> <<>>]
    ELSE IF ~(0 <= (old_field.address + old_field.size)
                       - (address + SumSizes(new_fields)))
    THEN [fs |-> fs, exc |-> "AssertionError", events |-> <<>>, replace |-> <<>>]
    ELSE writeReplace(
             replaceField(fs, old_field.name,
                          paddingIf(address - old_field.address) \o new_fields
                              \o paddingIf((old_field.address + old_field.size)
                                           - (address + SumSizes(new_fields)))),
             paddingIf(address - old_field.address) \o new_fields
                 \o paddingIf((old_field.address + old_field.size)
                              - (address + SumSizes(new_fields))))

\* ------------------------------------------------------------------ __iter__
\* An iterator made by GenericFieldSet.__iter__.  pc is where the generator is
\* suspended: "new" (not started), "for" (at the yield of the for loop, pending
\* being what is left of the slice values[done:], its head the field just
\* yielded), "tail" (at a yield of an except clause), "end" (finished) or
\* "hang" (the while loop spins: done exceeds the number of children).
\* out lists the names yielded so far.
NewIter == [pc |-> "new", done |-> 0, pending |-> <<>>, out |-> <<>>]

\* lines 479-498 past the feed: p is the outcome of the round, if one was
\* made, slice the children not yet yielded
iterPulled(p, it, slice) ==
    IF p.out = "raise"
    THEN [fs |-> p.fs, it |-> [it EXCEPT !.pc = "end"], val |-> <<>>, exc |-> p.exc]
    ELSE IF p.out \in {"fixed", "stopped"}
    THEN IF p.val # <<>>
         THEN [fs |-> p.fs,
               it |-> [it EXCEPT !.pc = "tail", !.out = Append(@, p.val[1].name)],
               val |-> p.val, exc |-> "none"]
         ELSE [fs |-> p.fs, it |-> [it EXCEPT !.pc = "end"], val |-> <<>>,
               exc |-> "StopIteration"]
    ELSE IF slice # <<>>
    THEN [fs |-> p.fs,
          it |-> [it EXCEPT !.pc = "for", !.pending = slice,
                            !.out = Append(@, slice[1].name)],
          val |-> <<slice[1]>>, exc |-> "none"]
    ELSE [fs |-> p.fs, it |-> [it EXCEPT !.pc = "hang"], val |-> <<>>, exc |-> "none"]

\* the body of the while loop with p the outcome of its feed
iterFed(p, it) == iterPulled(p, it, SubSeq(p.fs.fields, it.done + 1, Len(p.fs.fields)))

\* the head of the while loop: [fs, it, val, exc]
iterLoopHead(fs, up, autofix, it) ==
    IF it.done = Len(fs.fields) /\ fs.gen = None
    THEN [fs |-> fs, it |-> [it EXCEPT !.pc = "end"], val |-> <<>>,
          exc |-> "StopIteration"]
    ELSE iterFed(IF it.done = Len(fs.fields) /\ fs.gen # None
                 THEN pull(fs, up, autofix)
                 ELSE [fs |-> fs, out |-> "ok", val |-> <<>>, exc |-> "none"],
                 it)

\* the for loop resumed after a yield: rest is what is left of the slice
iterFor(fs, up, autofix, it, rest) ==
    IF rest # <<>>
    THEN [fs |-> fs,
          it |-> [it EXCEPT !.done = @ + 1, !.pending = rest,
                            !.out = Append(@, rest[1].name)],
          val |-> <<rest[1]>>, exc |-> "none"]
    ELSE iterLoopHead(fs, up, autofix, [it EXCEPT !.done = @ + 1, !.pending = rest])

\* next() on the iterator: [fs, it, val, exc]
iterNext(fs, up, autofix, it) ==
    IF it.pc = "new" THEN iterLoopHead(fs, up, autofix, it)
    ELSE IF it.pc = "for" THEN iterFor(fs, up, autofix, it, Tail(it.pending))
    ELSE [fs |-> fs, it |-> [it EXCEPT !.pc = "end"], val |-> <<>>,
          exc |-> "StopIteration"]

\* ------------------------------------------------------------------ producers
Na  == <<"a">>
Nb  == <<"b">>
Ns  == <<"s">>
Np  == <<"p", "[", "]">>
Nq  == <<"q", "[", "]">>
Naa == <<"a", "[", "]">>
Na0 == <<"a", "[", "0", "]">>

Leaf(name, size) ==
    [kind |-> "leaf", name |-> name, size |-> size, prog |-> <<>>, pre |-> 0]

SetItem(name, size, prog, pre) ==
    [kind |-> "set", name |-> name, size |-> size, prog |-> prog, pre |-> pre]

\* the loop "while not self.eof: yield child" whose successive children are
\* made as the items of body, taken in turn
WhileItem(body) == [kind |-> "while", name |-> <<>>, size |-> 0, prog |-> body, pre |-> 0]

\* a producer step that raises one of HACHOIR_ERRORS
ErrItem == [kind |-> "err", name |-> <<>>, size |-> 0, prog |-> <<>>, pre |-> 0]

SeqsUpTo(S, n) == UNION {[1..k -> S] : k \in 1..n}

\* Producers of one-bit leaves whose names collide or count: every sequence
\* over a plain name, the array name of the same prefix and a literal indexed
\* name, and the sequences of two array prefixes.
NameProgs ==
    SeqsUpTo({Leaf(n, 1) : n \in {Na, Naa, Na0}}, MaxYield)
        \cup {<<Leaf(x, 1), Leaf(y, 1), Leaf(z, 1)>> : x, y, z \in {Np, Nq}}

\* leaves of size 0 and of the two largest sizes
SizeLeaves == {Leaf(Np, z) : z \in {0, MaxLeafSize - 1, MaxLeafSize}}

\* Producers of leaves of every size, and those with a failing step
SizeProgs ==
    SeqsUpTo(SizeLeaves, MaxYield)
        \cup {pre \o <<ErrItem>> \o post :
                pre \in {<<>>} \cup SeqsUpTo(SizeLeaves, MaxYield - 2),
                post \in {<<>>, <<Leaf(Np, 1)>>}}

\* what a composite child yields
SubProgs ==
    {<<>>, <<Leaf(Nb, 1)>>, <<Leaf(Nb, 1), ErrItem>>, <<Leaf(Nb, 1), Leaf(Np, 2)>>,
     <<Leaf(Nb, 1), Leaf(Np, 1), ErrItem>>}

SetItems ==
    {SetItem(Ns, None, sp, 0) : sp \in SubProgs}
        \cup {SetItem(Ns, 3, <<Leaf(Nb, 1), Leaf(Np, 2)>>, k) : k \in 0..2}

\* Producers with a composite child
SetProgs ==
    {pre \o <<c>> \o post :
        pre \in {<<>>, <<Leaf(Np, 1)>>}, c \in SetItems,
        post \in {<<>>, <<Leaf(Np, 1)>>, <<Leaf(Ns, 1)>>}}

\* largest declared size of the field set under study
MaxSetSize == 3

\* where the field set is: a root, a child of a root of known size, a child of
\* a root over a stream of unknown size
UpRoot == [address |-> 0, ancestors |-> <<>>]

UpChild ==
    [address |-> 1, ancestors |-> <<[size |-> MaxSetSize + 1, address |-> 0]>>]

UpChildOfUnknown ==
    [address |-> 1, ancestors |-> <<[size |-> None, address |-> 0]>>]

Construction(size, u, prog, af) ==
    [size |-> size, up |-> u, prog |-> prog, autofix |-> af]

\* (size, up, producer, config.autofix) at construction
Constructions ==
    {Construction(c[1], UpRoot, prog, c[2]) :
        c \in {<<None, TRUE>>, <<MaxSetSize, TRUE>>, <<MaxSetSize, FALSE>>},
        prog \in NameProgs}
    \cup {Construction(c[1], c[2], prog, af) :
        c \in {<<None, UpRoot>>, <<MaxSetSize, UpRoot>>, <<None, UpChild>>},
        prog \in SizeProgs, af \in BOOLEAN}
    \cup {Construction(c[1], c[2], prog, af) :
        c \in {<<None, UpRoot>>, <<MaxSetSize, UpRoot>>, <<None, UpChild>>,
               <<None, UpChildOfUnknown>>},
        prog \in SetProgs, af \in BOOLEAN}

\* Producers the iterator is studied on: a duplicate name, a double collision,
\* a child that is too large, a failing step, a zero-size leaf, a composite
\* child that fails, a composite child fed before it is added.
IterProgs ==
    {<<Leaf(Na, 1), Leaf(Np, 1), Leaf(Na, 1)>>,
     <<Leaf(Na, 1), Leaf(Na0, 1), Leaf(Na, 1)>>,
     <<Leaf(Np, 1), Leaf(Np, MaxLeafSize), Leaf(Np, 1)>>,
     <<Leaf(Np, MaxLeafSize), Leaf(Np, MaxLeafSize)>>,
     <<Leaf(Np, 1), ErrItem, Leaf(Np, 1)>>,
     <<Leaf(Np, 0), Leaf(Np, 1)>>,
     <<Leaf(Np, 1), SetItem(Ns, None, <<Leaf(Nb, 1), Leaf(Np, 1), ErrItem>>, 0),
       Leaf(Np, 1)>>,
     <<SetItem(Ns, 3, <<Leaf(Nb, 1), Leaf(Np, 2)>>, 1), Leaf(Np, 1)>>}

IterConstructions ==
    {Construction(c[1], c[2], prog, af) :
        c \in {<<None, UpRoot>>, <<MaxSetSize, UpRoot>>, <<None, UpChild>>,
               <<None, UpChildOfUnknown>>},
        prog \in IterProgs, af \in BOOLEAN}

\* ------------------------------------------------------------------ state
VARIABLES
    fs,       \* the field set: _fields, _current_size, _size, _field_generator, ...
    up,       \* its _address and the (_size, _address) of its ancestors
    size0,    \* the size argument it was constructed with
    autofix,  \* config.autofix
    it,       \* an iterator over the field set, made by __iter__
    it2,      \* a second iterator over the same field set
    ret       \* the last operation, its arguments and what it returned or raised

vars == <<fs, up, size0, autofix, it, it2, ret>>

\* count is the number returned (None when the call returns None or a field),
\* found whether a field was returned or yielded
Ret(op, count, val, exc) ==
    [op |-> op, count |-> count, found |-> val # <<>>, exc |-> exc]

InitWith(C) ==
    /\ \E c \in C :
        /\ fs = NewFS(c.size, c.prog)
        /\ up = c.up
        /\ size0 = c.size
        /\ autofix = c.autofix
    /\ it = NewIter
    /\ it2 = NewIter
    /\ ret = Ret("init", None, <<>>, "none")

Init == InitWith(Constructions)

\* names a caller looks up
LookupNames == {Na, Ns, <<"p", "[", "1", "]">>}

ReadMoreFields ==
    \E number \in 0..MaxPull :
        LET r == readMoreFields(fs, up, autofix, number) IN
        /\ fs' = r.fs
        /\ ret' = Ret("readMoreFields", IF r.exc = "none" THEN r.added ELSE None,
                      <<>>, r.exc)
        /\ UNCHANGED <<up, size0, autofix, it, it2>>

ReadFirstFields ==
    \E number \in 0..MaxPull :
        LET r == readFirstFields(fs, up, autofix, number) IN
        /\ fs' = r.fs
        /\ ret' = Ret("readFirstFields", IF r.exc = "none" THEN r.added ELSE None,
                      <<>>, r.exc)
        /\ UNCHANGED <<up, size0, autofix, it, it2>>

GetFieldByName ==
    \E name \in LookupNames :
        LET r == getFieldByName(fs, up, autofix, name, FALSE) IN
        /\ fs' = r.fs
        /\ ret' = Ret("getField", None, r.val, r.exc)
        /\ UNCHANGED <<up, size0, autofix, it, it2>>

GetFieldByIndex ==
    \E key \in 0..MaxPull :
        LET r == getFieldByIndex(fs, up, autofix, key, FALSE) IN
        /\ fs' = r.fs
        /\ ret' = Ret("getIndex", None, r.val, r.exc)
        /\ UNCHANGED <<up, size0, autofix, it, it2>>

LenOp ==
    LET r == len(fs, up, autofix) IN
    /\ fs' = r.fs
    /\ ret' = Ret("len", IF r.exc = "none" THEN r.n ELSE None, <<>>, r.exc)
    /\ UNCHANGED <<up, size0, autofix, it, it2>>

SizeOp ==
    LET r == getSize(fs, up, autofix) IN
    /\ fs' = r.fs
    /\ ret' = Ret("size", IF r.exc = "none" THEN r.n ELSE None, <<>>, r.exc)
    /\ UNCHANGED <<up, size0, autofix, it, it2>>

Reset ==
    /\ fs' = reset(fs)
    /\ ret' = Ret("reset", None, <<>>, "none")
    /\ UNCHANGED <<up, size0, autofix, it, it2>>

\* len(self[i]) on a stored composite child: the child is fed completely
ChildLen ==
    \E i \in 1..Len(fs.fields) :
        /\ fs.fields[i].is_field_set
        /\ LET f == fs.fields[i]
               childUp == [address |-> f.address, ancestors |-> Chain(fs, up)]
               r == len(f.fs, childUp, autofix)
           IN  /\ fs' = [fs EXCEPT !.fields[i] = [f EXCEPT !.fs = r.fs, !.size = r.fs.size]]
               /\ ret' = Ret("childLen", IF r.exc = "none" THEN r.n ELSE None, <<>>, r.exc)
        /\ UNCHANGED <<up, size0, autofix, it, it2>>

\* next() on the iterator; a finished iterator is replaced by a new one
IterNext ==
    LET r == iterNext(fs, up, autofix, IF it.pc = "end" THEN NewIter ELSE it) IN
    /\ it.pc # "hang"
    /\ fs' = r.fs
    /\ it' = r.it
    /\ ret' = Ret("next", None, r.val, r.exc)
    /\ UNCHANGED <<up, size0, autofix, it2>>

Next ==
    \/ ReadMoreFields
    \/ ReadFirstFields
    \/ GetFieldByName
    \/ GetFieldByIndex
    \/ LenOp
    \/ SizeOp
    \/ Reset
    \/ ChildLen

Spec == Init /\ [][Next]_vars

\* the same operations interleaved with the steps of an iterator
InitIter == InitWith(IterConstructions)

NextIter ==
    \/ ReadMoreFields
    \/ ReadFirstFields
    \/ GetFieldByName
    \/ GetFieldByIndex
    \/ LenOp
    \/ SizeOp
    \/ Reset
    \/ ChildLen
    \/ IterNext

SpecIter == InitIter /\ [][NextIter]_vars

\* next() on the first of two iterators over the field set that are advanced
\* in turn, each until it ends
IterNextFirst ==
    LET r == iterNext(fs, up, autofix, it) IN
    /\ it.pc \notin {"end", "hang"}
    /\ fs' = r.fs
    /\ it' = r.it
    /\ ret' = Ret("next", None, r.val, r.exc)
    /\ UNCHANGED <<up, size0, autofix, it2>>

\* next() on the second iterator
IterNextSecond ==
    LET r == iterNext(fs, up, autofix, it2) IN
    /\ it2.pc \notin {"end", "hang"}
    /\ fs' = r.fs
    /\ it2' = r.it
    /\ ret' = Ret("next2", None, r.val, r.exc)
    /\ UNCHANGED <<up, size0, autofix, it>>

\* two iterators, lookups and readMoreFields calls in any interleaving
NextShared ==
    \/ IterNextFirst
    \/ IterNextSecond
    \/ GetFieldByName
    \/ GetFieldByIndex
    \/ ReadMoreFields

SpecShared == InitIter /\ [][NextShared]_vars

\* largest array index a replaceField may bring a counter to
MaxCount == 2

\* what a caller passes to replaceField as new_fields
NewFields ==
    SeqsUpTo({Leaf(n, 1) : n \in {Na, Np}}, 2)

ReplaceField ==
    \E name \in DictKeys(fs.fields) \cup {Nb}, new_fields \in NewFields :
        LET r == replaceField(fs, name, new_fields) IN
        /\ \A k \in DOMAIN fs.count : fs.count[k] < MaxCount
        /\ fs' = r.fs
        /\ ret' = Ret("replaceField", None, <<>>, r.exc)
        /\ UNCHANGED <<up, size0, autofix, it, it2>>

\* pulls and reset interleaved with random-access edits
NextEdit ==
    \/ ReadMoreFields
    \/ ReadFirstFields
    \/ GetFieldByName
    \/ GetFieldByIndex
    \/ LenOp
    \/ SizeOp
    \/ Reset
    \/ ChildLen
    \/ ReplaceField

SpecEdit == InitIter /\ [][NextEdit]_vars

\* array prefixes a caller asks for
ArrayKeys == {<<"p">>}

ArrayOp ==
    \E key \in ArrayKeys :
        /\ fs' = array(fs, key)
        /\ ret' = Ret("array", None, <<>>, "none")
        /\ UNCHANGED <<up, size0, autofix, it, it2>>

\* pulls and reset interleaved with uses of array()
NextArray ==
    \/ ReadMoreFields
    \/ ReadFirstFields
    \/ GetFieldByName
    \/ GetFieldByIndex
    \/ LenOp
    \/ SizeOp
    \/ Reset
    \/ ChildLen
    \/ ArrayOp

SpecArray == InitIter /\ [][NextArray]_vars

\* events a listener is connected to
EventNames == {"field-replaced", "field-insered"}

ConnectEvent ==
    \E event_name \in EventNames, local \in BOOLEAN :
        /\ fs' = connectEvent(fs, event_name, local)
        /\ ret' = Ret("connectEvent", None, <<>>, "none")
        /\ UNCHANGED <<up, size0, autofix, it, it2>>

\* Producers of a plain leaf and a larger array leaf, in both orders
EventProgs ==
    {<<Leaf(Na, 1), Leaf(Np, MaxLeafSize)>>, <<Leaf(Np, MaxLeafSize), Leaf(Na, 1)>>}

EventConstructions ==
    {Construction(None, u, prog, af) :
        u \in {UpRoot, UpChild}, prog \in EventProgs, af \in BOOLEAN}

InitEvents == InitWith(EventConstructions)

\* listeners connected, children pulled and replaced
NextEvents ==
    \/ ReadMoreFields
    \/ ReplaceField
    \/ ConnectEvent

SpecEvents == InitEvents /\ [][NextEvents]_vars

\* ------------------------------------------------------------------ streams
\* The stream is a sequence of bytes, held by the field set under study; its
\* children read the same stream.

\* the eight bits of a byte, high-order bit first
ByteBits(b) == [i \in 1..8 |-> (b \div 2^(8 - i)) % 2]

RECURSIVE bitsOf(_)
\* the bits of a string of bytes, as one packed number written in binary
bitsOf(bytes) ==
    IF bytes = <<>> THEN <<>> ELSE ByteBits(Head(bytes)) \o bitsOf(Tail(bytes))

\* the bytes that hold the bits [address, address + nbits); a byte past the
\* end of the stream stands as 0: the field that would hold it is never added
window(stream, address, nbits) ==
    [i \in 1..(((address + nbits - 1) \div 8) - (address \div 8) + 1) |->
        IF (address \div 8) + i <= Len(stream) THEN stream[(address \div 8) + i] ELSE 0]

\* The bits InputStream.readBits(address, nbits, endian) returns: the window
\* packed big-endian, past its address % 8 high-order bits, or packed
\* little-endian, above its address % 8 low-order bits.
readBitSeq(stream, address, nbits, endian) ==
    IF endian = "BIG_ENDIAN"
    THEN SubSeq(bitsOf(window(stream, address, nbits)),
                (address % 8) + 1, (address % 8) + nbits)
    ELSE SubSeq(bitsOf([i \in 1..Len(window(stream, address, nbits)) |->
                           window(stream, address, nbits)
                               [Len(window(stream, address, nbits)) + 1 - i]]),
                8 * Len(window(stream, address, nbits)) - (address % 8) - nbits + 1,
                8 * Len(window(stream, address, nbits)) - (address % 8))

RECURSIVE bitsValue(_)
\* the number a sequence of bits writes
bitsValue(bits) ==
    IF bits = <<>> THEN 0
    ELSE 2 * bitsValue(SubSeq(bits, 1, Len(bits) - 1)) + bits[Len(bits)]

\* InputStream.readBits
readBits(stream, address, nbits, endian) ==
    bitsValue(readBitSeq(stream, address, nbits, endian))

\* the value of an unsigned integer field of a big-endian parser (UInt8,
\* UInt16, UInt32) at a bit address
readUInt(stream, nbits, address) == readBits(stream, address, nbits, "BIG_ENDIAN")

\* InputStream.readBytes(address, nb_bytes), address a multiple of 8
readBytes(stream, address, nb_bytes) == window(stream, address, 8 * nb_bytes)

\* ------------------------------------------------------------------ Float
\* the names of the fields of a Float
FloatName ==
    [negative |-> <<"n", "e", "g", "a", "t", "i", "v", "e">>,
     exponent |-> <<"e", "x", "p", "o", "n", "e", "n", "t">>,
     one |-> <<"o", "n", "e">>,
     mantissa |-> <<"m", "a", "n", "t", "i", "s", "s", "a">>]

\* Float.createFields that yields the whole mantissa after the integer bit
floatFieldsWide(mantissa_bits, exponent_bits) ==
    <<Leaf(FloatName.negative, 1), Leaf(FloatName.exponent, exponent_bits)>>
        \o (IF 64 <= mantissa_bits
            THEN <<Leaf(FloatName.one, 1), Leaf(FloatName.mantissa, mantissa_bits)>>
            ELSE <<Leaf(FloatName.mantissa, mantissa_bits)>>)

\* Float.createFields of floatFactory(name, format, mantissa_bits, exponent_bits)
floatFields(mantissa_bits, exponent_bits) ==
    <<Leaf(FloatName.negative, 1), Leaf(FloatName.exponent, exponent_bits)>>
        \o (IF 64 <= mantissa_bits
            THEN <<Leaf(FloatName.one, 1), Leaf(FloatName.mantissa, mantissa_bits - 1)>>
            ELSE <<Leaf(FloatName.mantissa, mantissa_bits)>>)

\* floatFactory: the size and the producer of the class
floatFactory(mantissa_bits, exponent_bits) ==
    [size |-> 1 + mantissa_bits + exponent_bits,
     prog |-> floatFields(mantissa_bits, exponent_bits)]

Float32 == floatFactory(23, 8)
Float64 == floatFactory(52, 11)
Float80 == floatFactory(64, 15)

\* streams a Float is read from: -2.0 as a big-endian double padded to the
\* ten bytes of a Float80, its first two bytes and its last varying
FloatStreams ==
    {[<<192, 0, 0, 0, 0, 0, 0, 0, 0, 0>> EXCEPT ![1] = b1, ![2] = b2, ![10] = b10] :
        b1 \in {192, 64, 63, 255}, b2 \in {0, 240}, b10 \in {0, 1}}

\* a Float at the start of a parent of unknown size
InitFloat ==
    /\ \E cls \in {Float32, Float64, Float80}, stream \in FloatStreams,
          endian \in {"BIG_ENDIAN", "LITTLE_ENDIAN"} :
        /\ fs = [NewFS(cls.size, cls.prog) EXCEPT !.stream = stream, !.endian = endian]
        /\ size0 = cls.size
    /\ up = [address |-> 0, ancestors |-> <<[size |-> None, address |-> 0]>>]
    /\ autofix \in BOOLEAN
    /\ it = NewIter
    /\ it2 = NewIter
    /\ ret = Ret("init", None, <<>>, "none")

\* a field set of leaves pulled, counted and reset
NextLeaves ==
    \/ ReadMoreFields
    \/ LenOp
    \/ Reset

SpecFloat == InitFloat /\ [][NextLeaves]_vars

\* ------------------------------------------------------------------ AuFile
\* the names of the fields of an AuFile
AuName ==
    [signature |-> <<"s", "i", "g", "n", "a", "t", "u", "r", "e">>,
     data_ofs |-> <<"d", "a", "t", "a", "_", "o", "f", "s">>,
     data_size |-> <<"d", "a", "t", "a", "_", "s", "i", "z", "e">>,
     codec |-> <<"c", "o", "d", "e", "c">>,
     sample_rate |-> <<"s", "a", "m", "p", "l", "e", "_", "r", "a", "t", "e">>,
     channels |-> <<"c", "h", "a", "n", "n", "e", "l", "s">>,
     info |-> <<"i", "n", "f", "o">>,
     audio_data |-> <<"a", "u", "d", "i", "o", "_", "d", "a", "t", "a">>]

\* the six header fields of AuFile.createFields, 4 bytes each
auHeader ==
    <<Leaf(AuName.signature, 4 * 8), Leaf(AuName.data_ofs, 32), Leaf(AuName.data_size, 32),
      Leaf(AuName.codec, 32), Leaf(AuName.sample_rate, 32), Leaf(AuName.channels, 32)>>

\* AuFile.createFields: self["data_ofs"] and self["data_size"] are the second
\* and third fields, read at bits 32 and 64; current_size is that of the six
\* header fields when 'info' is sized
auFields(stream) ==
    auHeader
        \o (IF 0 < readUInt(stream, 32, 32) - SumSizes(auHeader) \div 8
            THEN <<Leaf(AuName.info, 8 * (readUInt(stream, 32, 32) - SumSizes(auHeader) \div 8))>>
            ELSE <<>>)
        \o <<Leaf(AuName.audio_data, 8 * readUInt(stream, 32, 64))>>

\* AuFile.createContentSize
createContentSize(stream) ==
    (readUInt(stream, 32, 32) + readUInt(stream, 32, 64)) * 8

\* a number as four big-endian bytes
UInt32Bytes(n) ==
    <<(n \div 2^24) % 256, (n \div 2^16) % 256, (n \div 2^8) % 256, n % 256>>

\* An .au file of the given length: ".snd", data_ofs, data_size, codec 1,
\* 8000 samples a second, 1 channel, then zero bytes
auStream(data_ofs, data_size, length) ==
    <<46, 115, 110, 100>> \o UInt32Bytes(data_ofs) \o UInt32Bytes(data_size)
        \o UInt32Bytes(1) \o UInt32Bytes(8000) \o UInt32Bytes(1)
        \o [i \in 1..(length - 24) |-> 0]

\* files with data_ofs 20, 24 and 26 and data_size 1, 2 and 32: as long as
\* their fields, and as long as their header says
AuStreams ==
    {auStream(o, z, (IF o > 24 THEN o ELSE 24) + z) : o \in {20, 24, 26}, z \in {1, 2, 32}}
        \cup {auStream(o, z, o + z) : o \in {20, 24, 26}, z \in {1, 2, 32}}

\* Parser.__init__: a root over the whole stream
InitAu ==
    /\ \E stream \in AuStreams :
        /\ fs = [NewFS(8 * Len(stream), auFields(stream)) EXCEPT !.stream = stream]
        /\ size0 = 8 * Len(stream)
    /\ up = UpRoot
    /\ autofix \in BOOLEAN
    /\ it = NewIter
    /\ it2 = NewIter
    /\ ret = Ret("init", None, <<>>, "none")

SpecAu == InitAu /\ [][NextLeaves]_vars

\* ------------------------------------------------------------------ JpegFile
\* the names of the fields of a JpegFile, and those JpegChunk.type_name gives
JpegName ==
    [header |-> <<"h", "e", "a", "d", "e", "r">>,
     type |-> <<"t", "y", "p", "e">>,
     size |-> <<"s", "i", "z", "e">>,
     content |-> <<"c", "o", "n", "t", "e", "n", "t">>,
     data |-> <<"d", "a", "t", "a">>,
     jfif |-> <<"j", "f", "i", "f">>,
     ver_maj |-> <<"v", "e", "r", "_", "m", "a", "j">>,
     ver_min |-> <<"v", "e", "r", "_", "m", "i", "n">>,
     units |-> <<"u", "n", "i", "t", "s">>,
     aspect_x |-> <<"a", "s", "p", "e", "c", "t", "_", "x">>,
     aspect_y |-> <<"a", "s", "p", "e", "c", "t", "_", "y">>,
     x_density |-> <<"x", "_", "d", "e", "n", "s", "i", "t", "y">>,
     y_density |-> <<"y", "_", "d", "e", "n", "s", "i", "t", "y">>,
     thumb_w |-> <<"t", "h", "u", "m", "b", "_", "w">>,
     thumb_h |-> <<"t", "h", "u", "m", "b", "_", "h">>,
     thumb_palette |-> <<"t", "h", "u", "m", "b", "_", "p", "a", "l", "e", "t", "t", "e">>,
     thumb_data |-> <<"t", "h", "u", "m", "b", "_", "d", "a", "t", "a">>,
     is_16bit |-> <<"i", "s", "_", "1", "6", "b", "i", "t">>,
     index |-> <<"i", "n", "d", "e", "x">>,
     qt |-> <<"q", "t", "[", "]">>,
     chunk |-> <<"c", "h", "u", "n", "k", "[", "]">>,
     sof |-> <<"s", "o", "f">>,
     dht |-> <<"d", "h", "t", "[", "]">>,
     soi |-> <<"s", "o", "i">>,
     eoi |-> <<"e", "o", "i">>,
     sos |-> <<"s", "o", "s">>,
     dqt |-> <<"d", "q", "t", "[", "]">>,
     dnl |-> <<"d", "n", "l", "[", "]">>,
     dri |-> <<"d", "r", "i", "[", "]">>,
     app0 |-> <<"a", "p", "p", "0">>,
     psd |-> <<"p", "s", "d">>,
     comment |-> <<"c", "o", "m", "m", "e", "n", "t", "[", "]">>,
     exif |-> <<"e", "x", "i", "f">>]

TAG_SOI == 216
TAG_EOI == 217
TAG_SOS == 218
TAG_DQT == 219
TAG_DRI == 221

JPEG_NATURAL_ORDER ==
    << 0,  1,  8, 16,  9,  2,  3, 10,
      17, 24, 32, 25, 18, 11,  4,  5,
      12, 19, 26, 33, 40, 48, 41, 34,
      27, 20, 13,  6,  7, 14, 21, 28,
      35, 42, 49, 56, 57, 50, 43, 36,
      29, 22, 15, 23, 30, 37, 44, 51,
      58, 59, 52, 45, 38, 31, 39, 46,
      53, 60, 61, 54, 47, 55, 62, 63>>

\* JpegChunkApp0.createFields of a chunk content at a bit address
app0Fields(stream, address) ==
    <<Leaf(JpegName.jfif, 5 * 8)>>
        \o (IF readBytes(stream, address, 5) # <<74, 70, 73, 70, 0>> THEN <<ErrItem>>
            ELSE <<Leaf(JpegName.ver_maj, 8), Leaf(JpegName.ver_min, 8), Leaf(JpegName.units, 8)>>
                \o (IF readUInt(stream, 8, address + 56) = 0
                    THEN <<Leaf(JpegName.aspect_x, 16), Leaf(JpegName.aspect_y, 16)>>
                    ELSE <<Leaf(JpegName.x_density, 16), Leaf(JpegName.y_density, 16)>>)
                \o <<Leaf(JpegName.thumb_w, 8), Leaf(JpegName.thumb_h, 8)>>
                \o (IF readUInt(stream, 8, address + 96) * readUInt(stream, 8, address + 104) # 0
                    THEN <<Leaf(JpegName.thumb_palette, 256 * 3 * 8),
                           Leaf(JpegName.thumb_data,
                                8 * readUInt(stream, 8, address + 96)
                                  * readUInt(stream, 8, address + 104))>>
                    ELSE <<>>))

\* QuantizationTable.createFields of a table at a bit address
qtFields(stream, address) ==
    <<Leaf(JpegName.is_16bit, 4), Leaf(JpegName.index, 4)>>
        \o [index \in 1..64 |->
               Leaf(<<"c", "o", "e", "f", "f", "[">>
                        \o FormatUInt(JPEG_NATURAL_ORDER[index]) \o <<"]">>,
                    IF readBits(stream, address, 4, "BIG_ENDIAN") # 0 THEN 16 ELSE 8)]

RECURSIVE dqtFields(_, _, _, _)
\* DefineQuantizationTable.createFields: tables while current_size < size
dqtFields(stream, address, current_size, size) ==
    IF current_size < size
    THEN <<SetItem(JpegName.qt, None, qtFields(stream, address + current_size), 0)>>
             \o dqtFields(stream, address,
                          current_size + SumSizes(qtFields(stream, address + current_size)),
                          size)
    ELSE <<>>

\* JpegChunk.type_name, "" for a tag it does not hold
type_name(tag) ==
    IF tag = 192 THEN JpegName.sof
    ELSE IF tag = 196 THEN JpegName.dht
    ELSE IF tag = TAG_SOI THEN JpegName.soi
    ELSE IF tag = TAG_EOI THEN JpegName.eoi
    ELSE IF tag = TAG_SOS THEN JpegName.sos
    ELSE IF tag = TAG_DQT THEN JpegName.dqt
    ELSE IF tag = 220 THEN JpegName.dnl
    ELSE IF tag = TAG_DRI THEN JpegName.dri
    ELSE IF tag = 224 THEN JpegName.app0
    ELSE IF tag = 237 THEN JpegName.psd
    ELSE IF tag = 254 THEN JpegName.comment
    ELSE <<>>

\* JpegChunk.__init__: the name of a chunk constructed as name at a bit
\* address, once its type is read
chunkName(stream, address, name) ==
    IF type_name(readUInt(stream, 8, address + 8)) # <<>>
    THEN type_name(readUInt(stream, 8, address + 8))
    ELSE IF readUInt(stream, 8, address + 8) = 225
            /\ readBytes(stream, address + 32, 6) = <<69, 120, 105, 102, 0, 0>>
    THEN JpegName.exif
    ELSE name

\* lines 235-244 of JpegChunk.createFields, what follows the field 'size':
\* handler(self, "content", size=size*8) for a tag of JpegChunk.handler, the
\* bytes as 'data' otherwise.  StartOfFrame, StartOfScan, RestartInterval,
\* PhotoshopMetadata and Exif contents are not among the streams studied.
chunkContent(stream, tag, address, size) ==
    IF 0 < size
    THEN IF tag = 224
         THEN <<SetItem(JpegName.content, size * 8, app0Fields(stream, address), 0)>>
         ELSE IF tag = TAG_DQT
         THEN <<SetItem(JpegName.content, size * 8,
                        dqtFields(stream, address, 0, size * 8), 0)>>
         ELSE <<Leaf(JpegName.data, size * 8)>>
    ELSE <<>>

\* JpegChunk.createFields of a chunk at a bit address
chunkFields(stream, address) ==
    <<Leaf(JpegName.header, 8)>>
        \o (IF readUInt(stream, 8, address) # 255 THEN <<ErrItem>>
            ELSE <<Leaf(JpegName.type, 8)>>
                \o (IF readUInt(stream, 8, address + 8) \in {TAG_SOI, TAG_EOI} THEN <<>>
                    ELSE <<Leaf(JpegName.size, 16)>>
                        \o chunkContent(stream, readUInt(stream, 8, address + 8),
                                        address + 32,
                                        readUInt(stream, 16, address + 16) - 2)))

\* JpegChunk(self, "chunk[]") as the producer of the file constructs it: its
\* __init__ reads self["type"], the second child, and renames the chunk
JpegChunk(stream, address) ==
    SetItem(chunkName(stream, address, JpegName.chunk), None, chunkFields(stream, address), 2)

\* lines 280-284 of JpegFile.createFields: the bytes left are 'data'
jpegData(current_size, size) ==
    IF (size - current_size) \div 8 # 0
    THEN <<Leaf(JpegName.data, 8 * ((size - current_size) \div 8))>>
    ELSE <<>>

\* self.current_size after a chunk that ends at bit end: a chunk that ends
\* past the size is cut to the size when it is stored (_fixFieldSize)
jpegAfter(end, size) == IF end > size THEN size ELSE end

RECURSIVE jpegFields(_, _, _)
\* JpegFile.createFields from current_size on, size being self._size: chunks
\* while not eof, up to a Start Of Scan, then the data
jpegFields(stream, current_size, size) ==
    IF current_size >= size THEN jpegData(current_size, size)
    ELSE <<JpegChunk(stream, current_size)>>
             \o (IF readUInt(stream, 8, current_size + 8) = TAG_SOS
                 THEN jpegData(jpegAfter(current_size
                                   + SumSizes(chunkFields(stream, current_size)), size),
                               size)
                 ELSE jpegFields(stream,
                                 jpegAfter(current_size
                                     + SumSizes(chunkFields(stream, current_size)), size),
                                 size))

\* FF D8, an APP0 chunk of 16 bytes holding "JFIF\0" 1.1, and a chunk FF DB
JfifHead ==
    <<255, 216, 255, 224, 0, 16, 74, 70, 73, 70, 0, 1, 1, 0, 0, 1, 0, 1, 0, 0,
      255, 219>>

\* streams a JpegFile is read from: the head with an empty table chunk, with
\* a table of 8-bit coefficients, with a wrong signature, cut short; a
\* comment, a Start Of Scan and data; a wrong chunk header; two SOI and an
\* EOI; chunks of an unknown type
JpegStreams ==
    {JfifHead \o <<0, 2>>,
     JfifHead \o <<0, 67, 0>> \o [i \in 1..64 |-> 1],
     [JfifHead \o <<0, 2>> EXCEPT ![10] = 88],
     SubSeq(JfifHead, 1, 8),
     <<255, 216, 255, 254, 0, 4, 65, 66, 255, 218, 0, 2, 0, 0>>,
     <<255, 216, 0, 224, 0, 2>>,
     <<255, 216, 255, 216, 255, 217>>,
     <<255, 216, 255, 1, 0, 2, 255, 1, 0, 2>>}

\* Parser.__init__: a root over the whole stream
InitJpeg ==
    /\ \E stream \in JpegStreams :
        /\ fs = [NewFS(8 * Len(stream), jpegFields(stream, 0, 8 * Len(stream)))
                     EXCEPT !.stream = stream]
        /\ size0 = 8 * Len(stream)
    /\ up = UpRoot
    /\ autofix \in BOOLEAN
    /\ it = NewIter
    /\ it2 = NewIter
    /\ ret = Ret("init", None, <<>>, "none")

\* len(self[i][j]) on a stored composite child of a stored composite child:
\* the content of a chunk is fed completely
ContentLen ==
    \E i \in 1..Len(fs.fields) :
        /\ fs.fields[i].is_field_set
        /\ \E j \in 1..Len(fs.fields[i].fs.fields) :
              /\ fs.fields[i].fs.fields[j].is_field_set
              /\ LET f == fs.fields[i]
                     g == f.fs.fields[j]
                     r == len(g.fs,
                              [address |-> g.address,
                               ancestors |-> Chain(f.fs, [address |-> f.address,
                                                          ancestors |-> Chain(fs, up)])],
                              autofix)
                 IN  /\ fs' = [fs EXCEPT !.fields[i].fs.fields[j] =
                                   [g EXCEPT !.fs = r.fs, !.size = r.fs.size]]
                     /\ ret' = Ret("contentLen", IF r.exc = "none" THEN r.n ELSE None,
                                   <<>>, r.exc)
        /\ UNCHANGED <<up, size0, autofix, it, it2>>

NextJpeg ==
    \/ ReadMoreFields
    \/ ReadFirstFields
    \/ ChildLen
    \/ ContentLen

SpecJpeg == InitJpeg /\ [][NextJpeg]_vars

\* Producers of a plain leaf and a leaf wide enough to be written in with a
\* padding on both sides, in both orders
WriteProgs ==
    {<<Leaf(Na, 1), Leaf(Np, MaxLeafSize + 1)>>,
     <<Leaf(Np, MaxLeafSize + 1), Leaf(Na, 1)>>}

WriteConstructions ==
    {Construction(None, UpRoot, prog, af) : prog \in WriteProgs, af \in BOOLEAN}

InitWrite == InitWith(WriteConstructions)

\* addresses a caller writes at
WriteAddresses == 0..(MaxLeafSize + 3)

WriteFieldsIn ==
    \E i \in 1..Len(fs.fields), address \in WriteAddresses, new_fields \in NewFields :
        LET r == writeFieldsIn(fs, fs.fields[i], address, new_fields) IN
        /\ \A k \in DOMAIN fs.count : fs.count[k] < MaxCount
        /\ fs' = r.fs
        /\ ret' = Ret("writeFieldsIn", None, <<>>, r.exc)
        /\ UNCHANGED <<up, size0, autofix, it, it2>>

\* children pulled and written in
NextWrite ==
    \/ ReadMoreFields
    \/ WriteFieldsIn

SpecWrite == InitWrite /\ [][NextWrite]_vars

\* access patterns on one construction: every pull and the iterator, no reset
NextLazy ==
    \/ ReadMoreFields
    \/ ReadFirstFields
    \/ GetFieldByName
    \/ GetFieldByIndex
    \/ LenOp
    \/ SizeOp
    \/ ChildLen
    \/ IterNext

SpecLazy == Init /\ [][NextLazy]_vars

\* ------------------------------------------------------------------ EXIF
\* the names of the fields of an IFD entry
ExifName ==
    [tag |-> <<"t", "a", "g">>,
     type |-> <<"t", "y", "p", "e">>,
     count |-> <<"c", "o", "u", "n", "t">>,
     value |-> <<"v", "a", "l", "u", "e">>,
     values |-> <<"v", "a", "l", "u", "e", "[", "]">>,
     padding |-> <<"p", "a", "d", "d", "i", "n", "g">>,
     offset |-> <<"o", "f", "f", "s", "e", "t">>]

\* BasicIFDEntry.ENTRY_FORMAT.get(type, (1, Bytes)): the number of items of a
\* value, their class and its static_size (0 for String and Bytes, which
\* have none)
ENTRY_FORMAT(type) ==
    IF type = 1 THEN [n |-> 1, cls |-> "UInt8", static_size |-> 8]
    ELSE IF type = 2 THEN [n |-> 1, cls |-> "String", static_size |-> 0]
    ELSE IF type = 3 THEN [n |-> 1, cls |-> "UInt16", static_size |-> 16]
    ELSE IF type = 4 THEN [n |-> 1, cls |-> "UInt32", static_size |-> 32]
    ELSE IF type = 5 THEN [n |-> 2, cls |-> "UInt32", static_size |-> 32]
    ELSE IF type = 7 THEN [n |-> 1, cls |-> "Bytes", static_size |-> 0]
    ELSE IF type = 9 THEN [n |-> 1, cls |-> "Int32", static_size |-> 32]
    ELSE IF type = 10 THEN [n |-> 2, cls |-> "Int32", static_size |-> 32]
    ELSE [n |-> 1, cls |-> "Bytes", static_size |-> 0]

\* BasicIFDEntry.getSizes, format being ENTRY_FORMAT of the type and count
\* self["count"].value * format[0]: [exc, value_size, array_size]
getSizes(format, count) ==
    IF count = 0 THEN [exc |-> "Error", value_size |-> 0, array_size |-> 0]
    ELSE IF format.cls \in {"String", "Bytes"}
    THEN [exc |-> "none", value_size |-> 8 * count, array_size |-> 1]
    ELSE [exc |-> "none", value_size |-> format.static_size * count,
          array_size |-> count]

\* lines 40-61 of BasicIFDEntry.createFields, z being what getSizes returned
exifValue(format, z) ==
    IF z.exc # "none" THEN <<ErrItem>>
    ELSE IF z.value_size <= 32
    THEN [i \in 1..z.array_size |->
             Leaf(IF 1 < z.array_size THEN ExifName.values ELSE ExifName.value,
                  IF format.cls \in {"String", "Bytes"} THEN 8 * (z.value_size \div 8)
                  ELSE format.static_size)]
             \o (IF z.array_size * z.value_size < 32
                 THEN <<Leaf(ExifName.padding,
                             8 * ((32 - z.array_size * z.value_size) \div 8))>>
                 ELSE <<>>)
    ELSE <<Leaf(ExifName.offset, 32)>>

\* BasicIFDEntry.createFields: self["type"] and self["count"] are the second
\* and third fields, read at bits 16 and 32
exifFields(stream) ==
    <<Leaf(ExifName.tag, 16), Leaf(ExifName.type, 16), Leaf(ExifName.count, 32)>>
        \o exifValue(ENTRY_FORMAT(readUInt(stream, 16, 16)),
                     getSizes(ENTRY_FORMAT(readUInt(stream, 16, 16)),
                              readUInt(stream, 32, 32)
                                  * ENTRY_FORMAT(readUInt(stream, 16, 16)).n))

\* largest count of an entry
MaxExifCount == 5

\* the types of TYPE_INFO and one that is not in it
ExifTypes == {1, 2, 3, 4, 5, 7, 9, 10, 6}

\* entries of 12 bytes: a tag, a type, a count and four more bytes
ExifStreams ==
    {<<1, 0, 0, type>> \o UInt32Bytes(count) \o <<1, 2, 3, 4>> :
        type \in ExifTypes, count \in 0..MaxExifCount}

\* an entry at the start of a parent of unknown size
InitExif ==
    /\ \E stream \in ExifStreams :
        fs = [NewFS(None, exifFields(stream)) EXCEPT !.stream = stream]
    /\ size0 = None
    /\ up = [address |-> 0, ancestors |-> <<[size |-> None, address |-> 0]>>]
    /\ autofix \in BOOLEAN
    /\ it = NewIter
    /\ it2 = NewIter
    /\ ret = Ret("init", None, <<>>, "none")

SpecExif == InitExif /\ [][NextLeaves]_vars

\* ------------------------------------------------------------------ eof loops
\* Children a loop "while not self.eof" makes: an atom with its size and tag
\* and one with data after them (mov.py, Atom), a line (ar.py, empty_line[]),
\* a file entry whose header is refused (ar.py, ArchiveFileEntry), a longer leaf
LoopChildren ==
    {SetItem(<<"f", "[", "]">>, None, <<Leaf(Na, 1), Leaf(Nb, 1)>>, 0),
     SetItem(<<"f", "[", "]">>, None, <<Leaf(Na, 1), Leaf(Nb, 1), Leaf(Np, 1)>>, 0),
     SetItem(<<"f", "[", "]">>, None, <<Leaf(Na, 1), ErrItem>>, 0),
     Leaf(Np, 1),
     Leaf(Np, MaxLeafSize)}

\* createFields that is one loop (AtomList, MovFile) or a leaf and then the
\* loop (ArchiveFile)
LoopProgs ==
    {pre \o <<WhileItem(body)>> :
        pre \in {<<>>, <<Leaf(Nb, MaxLeafSize)>>}, body \in SeqsUpTo(LoopChildren, 2)}

\* how far past MaxSetSize the sizes of the loops' field sets go
MaxLoopExtra == 2

\* sizes of the field sets the loops run in
LoopSizes == {MaxSetSize + k : k \in 1..MaxLoopExtra}

\* field sets of known size, roots and a child that fills its parent, with
\* auto-fix on
LoopConstructions ==
    {Construction(c[1], c[2], prog, TRUE) :
        c \in {<<z, UpRoot>> : z \in LoopSizes} \cup {<<MaxSetSize, UpChild>>},
        prog \in LoopProgs}

InitLoop == InitWith(LoopConstructions)

\* the operations that pull
NextPulls ==
    \/ ReadMoreFields
    \/ ReadFirstFields
    \/ GetFieldByIndex

SpecLoop == InitLoop /\ [][NextPulls]_vars

\* a readMoreFields call that changes the field set
PullMore == ReadMoreFields /\ fs' # fs

\* The caller goes on pulling: weak fairness of PullMore.  WF_vars(PullMore) is
\* []<>~ENABLED <<PullMore>>_vars \/ []<><<PullMore>>_vars, and it is written
\* with fs.gen # None for ENABLED <<PullMore>>_vars: a call on a sealed set
\* returns at line 445 with the set as it was, and a call on a set that is not
\* sealed changes it (PullMoreEnabled).
LiveLoop == SpecLoop /\ ([]<>(fs.gen = None) \/ []<><<PullMore>>_vars)

\* ------------------------------------------------------------------ the tree
RECURSIVE AllSets(_)
\* a field set and every composite below it
AllSets(s) ==
    {s} \cup UNION {AllSets(s.fields[i].fs) :
                        i \in {j \in 1..Len(s.fields) : s.fields[j].is_field_set}}

\* the children of s tile [0, current_size)
Tiles(s) ==
    LET n == Len(s.fields) IN
    /\ n > 0 => s.fields[1].address = 0
    /\ \A i \in 1..(n - 1) :
          s.fields[i].address + s.fields[i].size = s.fields[i + 1].address
    /\ n > 0 => s.fields[n].address + s.fields[n].size = s.current_size
    /\ s.current_size = SumSizes(s.fields)

Sealed(s) == s.gen = None

\* ================================================================== claims
\* C1: in every reachable state the stored children of every field set tile
\* [0, current_size): the first is at 0, each ends where the next begins, the
\* last ends at current_size, and current_size is the sum of their sizes.
C1_ChildrenTile == \A s \in AllSets(fs) : Tiles(s)

\* C2: every sealed field set whose size is known has current_size = size,
\* whichever path sealed it.
C2_SealedFillsSize ==
    \A s \in AllSets(fs) : (Sealed(s) /\ s.size # None) => s.current_size = s.size

\* a set of declared size whose producer came short, sealed by the padding
\* of _fixLastField
C2_Witness ==
    /\ Sealed(fs) /\ size0 # None /\ fs.current_size = fs.size
    /\ Len(fs.fields) > 1
    /\ fs.fields[Len(fs.fields)].name = RawName

\* C3: in a field set of known size every stored child lies within
\* [0, size], hence current_size <= size, with auto-fix on or off.
C3_ChildrenWithinSize ==
    \A s \in AllSets(fs) : s.size # None =>
        /\ s.current_size <= s.size
        /\ \A i \in 1..Len(s.fields) :
              /\ 0 <= s.fields[i].address
              /\ s.fields[i].address + s.fields[i].size <= s.size

\* the producer yielded more bits than the declared size holds, and the
\* pull has gone past the child that did not fit
C3_Witness ==
    /\ size0 # None /\ fs.size = size0 /\ SumSizes(fs.prog) > size0
    /\ Sealed(fs) /\ Len(fs.fields) > 0 /\ fs.current_size = size0
    /\ \A i \in 1..Len(fs.prog) : fs.prog[i].kind = "leaf"

\* names, addresses and sizes of the children, in order
Children(s) ==
    [i \in 1..Len(s.fields) |->
        [name |-> s.fields[i].name, address |-> s.fields[i].address,
         size |-> s.fields[i].size]]

\* the field set as constructed
Fresh == NewFS(size0, fs.prog)

\* one eager full feed of the fresh field set
EagerOnce == feedAll(Fresh, up, autofix)

RECURSIVE feedAllRepeated(_, _, _, _)
\* eager full feeds, repeated while the set is not sealed, at most n times
feedAllRepeated(s, u, af, n) ==
    IF n = 0 \/ Sealed(s) THEN s
    ELSE feedAllRepeated(feedAll(s, u, af).fs, u, af, n - 1)

\* C4 as stated: whenever an access pattern has sealed the set, its children
\* are those of one eager full feed of the fresh set.
C4_LazyEqualsOneEagerFeed ==
    Sealed(fs) => Children(fs) = Children(EagerOnce.fs)

\* C4: whenever an access pattern has sealed the set, its children are those
\* of eager full feeds of the fresh set repeated until the set is sealed (one
\* feed when it raises nothing; a feed that raises leaves the set active and
\* the next one resumes the producer).
C4_LazyEqualsEagerFeeds ==
    Sealed(fs) =>
        LET e == feedAllRepeated(Fresh, up, autofix, Len(fs.prog) + 2)
        IN  Sealed(e) /\ Children(fs) = Children(e)

\* sealed by an iterator, with more children than the eager feed, which raised,
\* left in the set
C4_Witness ==
    /\ Sealed(fs) /\ ret.op = "next"
    /\ EagerOnce.exc # "none"
    /\ Len(fs.fields) > Len(EagerOnce.fs.fields)

\* which yield of the producer each child is (0: made by the driver), and where
Appended(s) ==
    [i \in 1..Len(s.fields) |->
        [src |-> s.fields[i].src, address |-> s.fields[i].address]]

IsPrefix(a, b) == Len(a) <= Len(b) /\ a = SubSeq(b, 1, Len(a))

\* the children of s are in the order of the yields, a child made by the
\* driver last
InYieldOrder(s) ==
    \A i, j \in 1..Len(s.fields) :
        i < j => /\ s.fields[i].src # 0
                 /\ s.fields[j].src # 0 => s.fields[i].src < s.fields[j].src

\* a step other than reset() only appends to the children it found
PullAppends == ret'.op # "reset" => IsPrefix(Appended(fs), Appended(fs'))

\* C5 as stated: a pull only appends, the children are in the order of the
\* yields, and each child's address is strictly greater than that of the child
\* before it.
C5_OrderStrictAddresses ==
    [][/\ PullAppends
       /\ InYieldOrder(fs')
       /\ \A i \in 1..(Len(fs'.fields) - 1) :
             fs'.fields[i].address < fs'.fields[i + 1].address]_vars

\* C5: a pull only appends, the children are in the order of the yields, and
\* each child's address is at least that of the child before it, strictly
\* greater when the child before it has a size other than zero.
C5_OrderAddresses ==
    [][/\ PullAppends
       /\ InYieldOrder(fs')
       /\ \A i \in 1..(Len(fs'.fields) - 1) :
             /\ fs'.fields[i].address <= fs'.fields[i + 1].address
             /\ fs'.fields[i].size # 0 =>
                    fs'.fields[i].address < fs'.fields[i + 1].address]_vars

\* a leaf of size zero was stored and the next child shares its address
C5_Witness ==
    \E i \in 1..(Len(fs.fields) - 1) :
        /\ fs.fields[i].size = 0 /\ ~fs.fields[i].is_field_set
        /\ fs.fields[i + 1].src = fs.fields[i].src + 1
        /\ fs.fields[i + 1].address = fs.fields[i].address

\* the operations that pull on the field set
PullOps == {"readMoreFields", "readFirstFields", "getField", "getIndex", "len",
            "size", "next"}

\* C6: a sealed field set stays sealed until reset(), every pull on it adds no
\* child and leaves current_size and size unchanged, and readMoreFields and
\* readFirstFields return zero.
C6_SealedPullIsNoOp ==
    [][(Sealed(fs) /\ ret'.op # "reset") =>
          /\ Sealed(fs')
          /\ ret'.op \in PullOps =>
                /\ Children(fs') = Children(fs)
                /\ fs'.current_size = fs.current_size
                /\ fs'.size = fs.size
          /\ ret'.op \in {"readMoreFields", "readFirstFields"} =>
                ret'.exc = "none" /\ ret'.count = 0]_vars

\* the names of the children of s are pairwise distinct
UniqueNames(s) ==
    \A i, j \in 1..Len(s.fields) : s.fields[i].name = s.fields[j].name => i = j

\* C7: in a sealed field set the names of the children are pairwise distinct,
\* whether they were renamed from 'p[]', renamed after a collision, made as
\* padding by auto-fix or truncation, or put in by replaceField.
C7_SealedNamesDistinct ==
    \A s \in AllSets(fs) : Sealed(s) => UniqueNames(s)

\* a sealed set holding the padding of auto-fix, in which replaceField has
\* just put a field under a counted name
C7_Witness ==
    /\ Sealed(fs) /\ ret.op = "replaceField" /\ ret.exc = "none"
    /\ DictHas(fs.fields, RawName)
    /\ \E i \in 1..Len(fs.fields) :
          /\ fs.fields[i].src = 0 /\ fs.fields[i].name # RawName
          /\ fs.fields[i].name \notin {Na, Np}

\* the field set and its composite children, each with where it is
SetsWithUp ==
    {[s |-> fs, u |-> up]}
        \cup {[s |-> fs.fields[i].fs,
                u |-> [address |-> fs.fields[i].address, ancestors |-> Chain(fs, up)]] :
                i \in {j \in 1..Len(fs.fields) : fs.fields[j].is_field_set}}

\* reset() followed by readMoreFields(k)
ResetAndRead(s, u, k) == readMoreFields(reset(s), u, autofix, k)

\* C8: from every state, reset() followed by readMoreFields(k), run twice in
\* a row, gives the same children (names, addresses, sizes) both times, for
\* every k.
C8_ResetAndReadTwice ==
    \A x \in SetsWithUp, k \in 0..(MaxYield + 1) :
        LET first  == ResetAndRead(x.s, x.u, k).fs
            second == ResetAndRead(first, x.u, k).fs
        IN  Children(first) = Children(second)

\* the state is what reset() and readMoreFields(k) leave, for a k that sealed
\* the set and so fixed its size, unknown at construction; array names were
\* counted
C8_Witness ==
    /\ ret.op = "readMoreFields" /\ Sealed(fs)
    /\ size0 = None /\ fs.size # None
    /\ \E k \in 1..MaxPull : ResetAndRead(fs, up, k).fs = fs
    /\ \E key \in DOMAIN fs.count : fs.count[key] > 0

\* C9: reset() leaves the field set active with a fresh producer, no
\* children, current_size 0, empty array-name counters and an empty array
\* cache, and leaves its size, its address and its ancestors as they were.
C9_ResetEffect ==
    [][ret'.op = "reset" =>
          /\ ~Sealed(fs') /\ fs'.gen = 0 /\ fs'.prog = fs.prog
          /\ fs'.fields = <<>>
          /\ fs'.current_size = 0
          /\ fs'.count = EmptyDict
          /\ fs'.cache = {}
          /\ fs'.size = fs.size
          /\ up' = up]_vars

\* reset() has run on a set that had been sealed, which had fixed its size
C9_Witness ==
    /\ ret.op = "reset" /\ size0 = None /\ fs.size # None
    /\ fs.fields = <<>> /\ fs.current_size = 0 /\ fs.gen = 0

\* name[:-2]
Key(name) == SubSeq(name, 1, Len(name) - 2)

\* key + "[%u]" % k
Indexed(key, k) == key \o <<"[">> \o FormatUInt(k) \o <<"]">>

\* the children of s that its producer yielded under a name ending with "[]"
ArrayChildren(s) ==
    {i \in 1..Len(s.fields) :
        s.fields[i].src # 0 /\ EndsWithBrackets(s.prog[s.fields[i].src].name)}

\* how many yields before yield number src had the name of that yield
EarlierSameName(s, src) ==
    Cardinality({j \in 1..(src - 1) : s.prog[j].name = s.prog[src].name})

\* how many yields before yield number src had the plain name key while a
\* child yielded under that name was stored, and so were renamed
EarlierCollisions(s, key, src) ==
    Cardinality({j \in 1..(src - 1) :
        /\ s.prog[j].name = key
        /\ \E g \in 1..Len(s.fields) :
              s.fields[g].src # 0 /\ s.fields[g].src < j
              /\ s.prog[s.fields[g].src].name = key})

C11_NoStoredArrayName ==
    \A s \in AllSets(fs) : \A i \in 1..Len(s.fields) : ~EndsWithBrackets(s.fields[i].name)

\* C12: a name collision never fails a pull: the colliding child is renamed,
\* stored, and current_size stays the sum of the sizes of the stored children,
\* for every sequence of yielded names, literal indexed names included.
C12_CollisionKeepsSum ==
    \A s \in AllSets(fs) : s.current_size = SumSizes(s.fields)

\* Producers whose last child does not fit: a leaf or a composite, of declared
\* or of unknown size, yielded when some bits are left and when none is.
OversizeProgs ==
    {pre \o <<c>> :
        pre \in {<<Leaf(Np, 1)>>, <<Leaf(Np, 1), Leaf(Np, MaxLeafSize)>>},
        c \in {Leaf(Np, MaxLeafSize),
               SetItem(Ns, 3, <<Leaf(Nb, 1), Leaf(Np, 2)>>, 0),
               SetItem(Ns, None, <<Leaf(Nb, 1), Leaf(Np, 2)>>, 0)}}

OversizeConstructions ==
    {Construction(c[1], c[2], prog, af) :
        c \in {<<MaxLeafSize + 1, UpRoot>>, <<None, UpChild>>},
        prog \in OversizeProgs, af \in BOOLEAN}

InitOversize == InitWith(OversizeConstructions)

\* the operations on field sets whose producer yields too much
SpecOversize == InitOversize /\ [][Next]_vars

\* Producers of a composite child of unknown size whose own producer fails
\* after leaves of no bit, of one bit and of two, yielded when the set has
\* bits left and when it is full
RescueProgs ==
    {pre \o <<SetItem(Ns, None, sub \o <<ErrItem>>, 0)>> \o post :
        pre \in {<<>>, <<Leaf(Np, 1)>>, <<Leaf(Np, 1), Leaf(Np, MaxLeafSize)>>},
        sub \in {<<>>, <<Leaf(Nb, 0)>>, <<Leaf(Nb, 1)>>, <<Leaf(Nb, 1), Leaf(Np, 1)>>,
                 <<Leaf(Nb, MaxLeafSize)>>},
        post \in {<<>>, <<Leaf(Np, 1)>>}}

RescueConstructions ==
    {Construction(c[1], c[2], prog, af) :
        c \in {<<MaxLeafSize + 1, UpRoot>>, <<None, UpChild>>, <<None, UpRoot>>},
        prog \in RescueProgs, af \in BOOLEAN}

InitRescue == InitWith(RescueConstructions)

\* the operations on field sets whose composite child fails while it is sized
SpecRescue == InitRescue /\ [][Next]_vars

\* what the producer gives next in the current state
NextYield == genNext(fs, up, autofix)

\* the yielded child with its size known, as lines 257-271 leave it
YieldSized ==
    querySize([NextYield.field[1] EXCEPT !.address = NextYield.fs.current_size],
              [address |-> NextYield.fs.current_size, ancestors |-> Chain(fs, up)],
              autofix)

\* line 272: the room left after the yielded child in the nearest set of known
\* size, the field set itself or an ancestor
YieldRoom ==
    checkSize(NextYield.fs, up,
              NextYield.fs.current_size + YieldSized.field.size, FALSE)

\* the next yield is a child that would end past the known size
YieldTooLarge ==
    /\ fs.gen # None
    /\ NextYield.out = "yield"
    /\ YieldSized.exc = "none"
    /\ ~YieldRoom.none /\ YieldRoom.v < 0

\* the bits left for the yielded child
YieldSpace == YieldSized.field.size + YieldRoom.v

\* one round of a feed loop from the current state
OnePull == pull(fs, up, autofix)

\* the round failed with ParserError and stored nothing
PullRaisedTooLarge ==
    /\ OnePull.out = "raise" /\ OnePull.exc = "Error"
    /\ Children(OnePull.fs) = Children(fs)

\* the round stored the yielded child cut down to the bits left
PullStoredTruncated ==
    /\ Len(OnePull.fs.fields) = Len(fs.fields) + 1
    /\ IsPrefix(Children(fs), Children(OnePull.fs))
    /\ OnePull.fs.fields[Len(OnePull.fs.fields)].src = fs.gen + 1
    /\ OnePull.fs.fields[Len(OnePull.fs.fields)].size = YieldSpace

\* the round dropped the yielded child, stopped the producer and closed the
\* set, with a padding of the slack when there is some
PullDroppedAndClosed ==
    /\ OnePull.out = "stopped"
    /\ Sealed(OnePull.fs)
    /\ OnePull.fs.current_size = OnePull.fs.size
    /\ \/ /\ Children(OnePull.fs) = Children(fs)
          /\ fs.current_size = OnePull.fs.size
       \/ /\ Len(OnePull.fs.fields) = Len(fs.fields) + 1
          /\ IsPrefix(Children(fs), Children(OnePull.fs))
          /\ OnePull.fs.fields[Len(OnePull.fs.fields)].src = 0
          /\ OnePull.fs.fields[Len(OnePull.fs.fields)].size
                = OnePull.fs.size - fs.current_size
          /\ OnePull.fs.size > fs.current_size

\* C13 as stated: a child that would end past the known size makes the pull
\* raise with auto-fix off; with auto-fix on a composite child of positive
\* size is truncated to the bits left and stored, and any other child is
\* dropped, the producer stopped and the set closed with current_size = size.
C13_OversizeComposite ==
    YieldTooLarge =>
        IF ~autofix THEN PullRaisedTooLarge
        ELSE IF YieldSized.field.is_field_set /\ YieldSized.field.size > 0
        THEN PullStoredTruncated
        ELSE PullDroppedAndClosed

\* C13: a child that would end past the known size makes the pull raise with
\* auto-fix off; with auto-fix on a composite child of positive size is
\* truncated to the bits left and stored when some bits are left, and any
\* other child is dropped, the producer stopped and the set closed with
\* current_size = size.
C13_OversizeChild ==
    YieldTooLarge =>
        IF ~autofix THEN PullRaisedTooLarge
        ELSE IF YieldSized.field.is_field_set /\ YieldSized.field.size > 0
                /\ YieldSpace > 0
        THEN PullStoredTruncated
        ELSE PullDroppedAndClosed

\* with auto-fix on, a composite child declared larger than the bits left is
\* stored cut down
C13_Witness ==
    /\ autofix
    /\ \E i \in 1..Len(fs.fields) :
          /\ fs.fields[i].is_field_set
          /\ fs.fields[i].src # 0
          /\ fs.prog[fs.fields[i].src].size # None
          /\ fs.fields[i].size < fs.prog[fs.fields[i].src].size

RECURSIVE Trimmed(_)
\* s without the trailing children that reach past its size
Trimmed(s) ==
    IF s.size < s.current_size /\ s.fields # <<>>
    THEN Trimmed([s EXCEPT !.current_size = @ - s.fields[Len(s.fields)].size,
                           !.fields = SubSeq(@, 1, Len(@) - 1)])
    ELSE s

\* a raw leaf that fills s up to its size
Padding(s) ==
    [name |-> RawName, address |-> s.current_size, size |-> s.size - s.current_size]

\* the children of s once it is closed by auto-fix: those within its size, and
\* one raw leaf of the slack if there is some
Closed(s) ==
    IF Trimmed(s).size = Trimmed(s).current_size THEN Children(Trimmed(s))
    ELSE Append(Children(Trimmed(s)), Padding(Trimmed(s)))

\* the producer has nothing more to yield and the known size is not reached
ExhaustedShort ==
    /\ fs.gen # None
    /\ NextYield.out = "StopIteration"
    /\ fs.size # None /\ fs.size # fs.current_size

\* C14: when the producer is exhausted and the known size differs from
\* current_size, the pull raises ParserError with auto-fix off and stores
\* nothing; with auto-fix on the trailing children past the size are deleted,
\* exactly one raw field of the slack is appended when the slack is not zero,
\* and the set is sealed with current_size = size.
C14_ExhaustedSizeMismatch ==
    ExhaustedShort =>
        IF ~autofix
        THEN /\ OnePull.out = "raise" /\ OnePull.exc = "Error"
             /\ Children(OnePull.fs) = Children(fs)
        ELSE /\ OnePull.out = "stopped"
             /\ Sealed(OnePull.fs)
             /\ Children(OnePull.fs) = Closed(fs)
             /\ OnePull.fs.current_size = fs.size
             /\ OnePull.fs.size = fs.size

\* every yield of a producer that gives less than the declared size is stored,
\* and auto-fix has closed the set with one padding
C14_Witness ==
    /\ autofix /\ size0 # None /\ Sealed(fs)
    /\ \A i \in 1..Len(fs.prog) : fs.prog[i].kind = "leaf"
    /\ SumSizes(fs.prog) < size0
    /\ Len(fs.fields) = Len(fs.prog) + 1
    /\ fs.fields[Len(fs.fields)].src = 0
    /\ fs.fields[Len(fs.fields)].size = size0 - SumSizes(fs.prog)

\* the try block of one round of a feed loop from the current state: next() on
\* the producer, then _addField
TryBlock ==
    IF NextYield.out = "yield"
    THEN addField(NextYield.fs, up, NextYield.field[1], autofix)
    ELSE [fs |-> NextYield.fs, exc |-> NextYield.out]

\* the next round meets one of HACHOIR_ERRORS, raised by the producer or by
\* _addField
NextRaises == fs.gen # None /\ TryBlock.exc = "Error"

\* C15: an error raised while pulling leaves the pull as it is, no child
\* stored, when auto-fix is off or the size is unknown; otherwise it is
\* swallowed, the set is sealed, and one raw field of size - current_size is
\* appended when that gap is not zero, so that current_size = size.
C15_ProducerError ==
    NextRaises =>
        IF ~autofix \/ fs.size = None
        THEN /\ OnePull.out = "raise" /\ OnePull.exc = "Error"
             /\ Children(OnePull.fs) = Children(fs)
             /\ ~Sealed(OnePull.fs)
        ELSE /\ OnePull.out = "fixed"
             /\ Sealed(OnePull.fs)
             /\ Children(OnePull.fs) = Closed(TryBlock.fs)
             /\ OnePull.fs.current_size = fs.size
             /\ OnePull.fs.size = fs.size

\* a producer that raised after its first yields, repaired: the yields before
\* the failing step and one padding are stored, and the pull returned normally
C15_Witness ==
    /\ autofix /\ size0 # None /\ Sealed(fs)
    /\ ret.exc = "none"
    /\ \E k \in 1..Len(fs.prog) :
          /\ fs.prog[k].kind = "err"
          /\ Len(fs.fields) = k
          /\ \A i \in 1..(k - 1) : fs.fields[i].src = i
          /\ fs.fields[k].src = 0
          /\ fs.fields[k].size = size0 - SumSizes(SubSeq(fs.prog, 1, k - 1))

\* C16: a yielded leaf that declares size 0 is rejected by _addField: no field
\* set has a leaf of size zero as its last child.
C16_NoZeroSizeLastLeaf ==
    \A s \in AllSets(fs) :
        s.fields # <<>> =>
            ~(/\ ~s.fields[Len(s.fields)].is_field_set
              /\ s.fields[Len(s.fields)].size = 0)

\* what a lookup of name, made in the current state, gives
Lookup(name) == getFieldByName(fs, up, autofix, name, FALSE)

\* C17: a lookup by name that has finished pulling returns the child whenever
\* the set then holds a child of that name, and reports a miss only if the set
\* is sealed and holds no child of that name.
C17_LookupFindsStored ==
    \A name \in LookupNames :
        Lookup(name).exc = "none" =>
            /\ DictHas(Lookup(name).fs.fields, name) =>
                  /\ Lookup(name).val # <<>>
                  /\ Lookup(name).val[1].name = name
            /\ Lookup(name).val = <<>> =>
                  /\ Sealed(Lookup(name).fs)
                  /\ ~DictHas(Lookup(name).fs.fields, name)

\* what a lookup of index key, made in the current state, gives
LookupIndex(key) == getFieldByIndex(fs, up, autofix, key, FALSE)

\* the children of s that the producer yielded, those after the first n
YieldsAfter(s, n) ==
    {i \in (n + 1)..Len(s.fields) : s.fields[i].src # 0}

Max(a, b) == IF a >= b THEN a ELSE b

\* a lookup of name pulled no further than the child of that name
NamePullMinimal(name) ==
    /\ DictHas(fs.fields, name) => Lookup(name).fs = fs
    /\ (~DictHas(fs.fields, name) /\ DictHas(Lookup(name).fs.fields, name)) =>
          /\ YieldsAfter(Lookup(name).fs,
                         DictIndex(Lookup(name).fs.fields, name) + 1) = {}
          /\ ~Sealed(Lookup(name).fs) =>
                /\ DictIndex(Lookup(name).fs.fields, name) + 1
                       = Len(Lookup(name).fs.fields)
                /\ Lookup(name).fs.gen
                       = Lookup(name).fs.fields[Len(Lookup(name).fs.fields)].src

\* a lookup of index key pulled until key + 1 children exist and no further
IndexPullMinimal(key) ==
    /\ Len(LookupIndex(key).fs.fields) <= Max(Len(fs.fields), key + 1)
    /\ Cardinality(YieldsAfter(LookupIndex(key).fs, Len(fs.fields)))
           <= Max(0, key + 1 - Len(fs.fields))
    /\ (LookupIndex(key).exc \in {"none", "IndexError"}
            /\ ~Sealed(LookupIndex(key).fs)) =>
           Len(LookupIndex(key).fs.fields) >= key + 1

\* C18: on an active set a lookup by name stops pulling as soon as a child of
\* that name is appended, a lookup by index i pulls until i + 1 children exist
\* and no further, and a const lookup by name or by index leaves the field set
\* as it is.
C18_PullsMinimal ==
    ~Sealed(fs) =>
        /\ \A name \in LookupNames :
              /\ NamePullMinimal(name)
              /\ getFieldByName(fs, up, autofix, name, TRUE).fs = fs
        /\ \A key \in 0..MaxPull :
              /\ IndexPullMinimal(key)
              /\ getFieldByIndex(fs, up, autofix, key, TRUE).fs = fs

\* a lookup by name has returned the child the producer yielded last, and the
\* producer has more to yield
C18_Witness ==
    /\ ret.op = "getField" /\ ret.found
    /\ ~Sealed(fs)
    /\ fs.fields # <<>>
    /\ fs.fields[Len(fs.fields)].name \in LookupNames
    /\ fs.gen = fs.fields[Len(fs.fields)].src
    /\ fs.gen < Len(fs.prog)

\* what readMoreFields(number), called in the current state, gives
ReadMore(number) == readMoreFields(fs, up, autofix, number)

\* C19: readMoreFields(n) returns the number of children the call added to the
\* field set, the child count after minus the child count before, for every
\* n >= 0 and every outcome that returns.
C19_ReadMoreReturnsAdded ==
    \A number \in 0..MaxPull :
        ReadMore(number).exc = "none" =>
            ReadMore(number).added
                = Len(ReadMore(number).fs.fields) - Len(fs.fields)

\* what replaceField(name, new_fields), called in the current state, gives
Replaced(name, new_fields) == replaceField(fs, name, new_fields)

At(name) == DictIndex(fs.fields, name) + 1

\* the new fields f0..fk stand at the index and address of the replaced child
\* and after it, end to end, and every other child is as it was
ReplacedInPlace(name, new_fields, s) ==
    /\ Len(s.fields) = Len(fs.fields) + Len(new_fields) - 1
    /\ \A j \in 1..(At(name) - 1) : s.fields[j] = fs.fields[j]
    /\ \A j \in (At(name) + 1)..Len(fs.fields) :
          s.fields[j + Len(new_fields) - 1] = fs.fields[j]
    /\ \A m \in 1..Len(new_fields) :
          /\ s.fields[At(name) + m - 1].size = new_fields[m].size
          /\ s.fields[At(name) + m - 1].address
                = fs.fields[At(name)].address + SumSizes(SubSeq(new_fields, 1, m - 1))
          /\ ~EndsWithBrackets(new_fields[m].name) =>
                s.fields[At(name) + m - 1].name = new_fields[m].name

\* C21: a successful replaceField(name, [f0..fk]) puts f0 at the index and
\* address of the replaced child and f1..fk at the following indices with
\* contiguous addresses, leaves every other child, current_size, size and the
\* producer as they were, and keeps the children tiling [0, current_size).
C21_ReplaceInPlace ==
    \A name \in DictKeys(fs.fields), new_fields \in NewFields :
        Replaced(name, new_fields).exc = "none" =>
            /\ ReplacedInPlace(name, new_fields, Replaced(name, new_fields).fs)
            /\ Replaced(name, new_fields).fs.current_size = fs.current_size
            /\ Replaced(name, new_fields).fs.size = fs.size
            /\ Replaced(name, new_fields).fs.gen = fs.gen
            /\ Replaced(name, new_fields).fs.prog = fs.prog
            /\ Tiles(fs) => Tiles(Replaced(name, new_fields).fs)

\* a child that was not the first has been replaced by two fields, which now
\* stand end to end among the children made by the producer
C21_Witness ==
    /\ ret.op = "replaceField" /\ ret.exc = "none"
    /\ Tiles(fs)
    /\ \E i \in 2..(Len(fs.fields) - 1) :
          /\ fs.fields[i - 1].src # 0
          /\ fs.fields[i].src = 0 /\ fs.fields[i].name # RawName
          /\ fs.fields[i + 1].src = 0 /\ fs.fields[i + 1].name # RawName
          /\ fs.fields[i].address + fs.fields[i].size = fs.fields[i + 1].address

\* the calls one raise makes: the local listeners of the event, then the
\* global ones; at is where the field stands when the event is raised
Calls(event_name, args, at) ==
    (IF fs.event_handler.made /\ event_name \in fs.event_handler.names
     THEN <<[to |-> "local", event |-> event_name, args |-> args, at |-> at]>>
     ELSE <<>>)
    \o (IF fs.global_event_handler.made /\ event_name \in fs.global_event_handler.names
        THEN <<[to |-> "global", event |-> event_name, args |-> args, at |-> at]>>
        ELSE <<>>)

RECURSIVE ReplaceCalls(_, _, _, _)
\* the calls due for the new fields m..k of a replaceField(name, ...) that left
\* the set as s: 'field-replaced'(old, f0) for the first, 'field-insered'(index,
\* fm) for the others, each field at its index when its event is raised
ReplaceCalls(name, k, s, m) ==
    IF m > k THEN <<>>
    ELSE Calls(IF m = 1 THEN "field-replaced" ELSE "field-insered",
               <<IF m = 1 THEN name ELSE At(name) + m - 2,
                 s.fields[At(name) + m - 1].name>>,
               At(name) + m - 2)
         \o ReplaceCalls(name, k, s, m + 1)

\* C22: a successful replaceField(name, [f0..fk]) raises one 'field-replaced'
\* (old, f0) and then k 'field-insered'(index, fi), i = 1..k, with consecutive
\* indices from index(f0) + 1, each when its field is already in the set, and
\* each raise goes to the local listeners and then to the global listeners.
C22_ReplaceEvents ==
    \A name \in DictKeys(fs.fields), new_fields \in NewFields :
        Replaced(name, new_fields).exc = "none" =>
            Replaced(name, new_fields).events
                = ReplaceCalls(name, Len(new_fields),
                               Replaced(name, new_fields).fs, 1)

\* a child has been replaced by two fields while local and global listeners
\* of both events were connected
C22_Witness ==
    /\ ret.op = "replaceField" /\ ret.exc = "none"
    /\ fs.event_handler.names = EventNames
    /\ fs.global_event_handler.names = EventNames
    /\ \E i \in 1..(Len(fs.fields) - 1) :
          /\ fs.fields[i].src = 0 /\ fs.fields[i].name # RawName
          /\ fs.fields[i + 1].src = 0 /\ fs.fields[i + 1].name # RawName

\* what writeFieldsIn(old, address, new_fields), old the i-th child, gives in
\* the current state
Written(i, address, new_fields) ==
    writeFieldsIn(fs, fs.fields[i], address, new_fields)

\* the window [address, address + total size) lies inside the i-th child
WindowInside(i, address, new_fields) ==
    /\ fs.fields[i].address <= address
    /\ address + SumSizes(new_fields) <= fs.fields[i].address + fs.fields[i].size

\* sizes of the fields of a list
Sizes(fields) == [j \in 1..Len(fields) |-> fields[j].size]

\* the sizes of a padding before, if any, the new fields, and a padding
\* after, if any
WindowSizes(i, address, new_fields) ==
    (IF address > fs.fields[i].address
     THEN <<address - fs.fields[i].address>> ELSE <<>>)
    \o Sizes(new_fields)
    \o (IF fs.fields[i].address + fs.fields[i].size > address + SumSizes(new_fields)
        THEN <<fs.fields[i].address + fs.fields[i].size
                   - (address + SumSizes(new_fields))>>
        ELSE <<>>)

\* C23: writeFieldsIn(old, address, new_fields) with the window inside old
\* replaces old by a padding of address - old.address bits if positive, the
\* new fields, and a padding of the bits left up to the end of old if
\* positive; the replacement sums to old.size, so the size check of
\* replaceField passes, it starts at old.address, and new_fields[0] starts at
\* address.
C23_WriteInWindow ==
    \A i \in 1..Len(fs.fields), address \in WriteAddresses, new_fields \in NewFields :
        WindowInside(i, address, new_fields) =>
            /\ Sizes(Written(i, address, new_fields).replace)
                  = WindowSizes(i, address, new_fields)
            /\ SumSizes(Written(i, address, new_fields).replace) = fs.fields[i].size
            /\ Written(i, address, new_fields)
                  = writeReplace(
                        replaceField(fs, fs.fields[i].name,
                                     Written(i, address, new_fields).replace),
                        Written(i, address, new_fields).replace)
            /\ Written(i, address, new_fields).exc = "none" =>
                  /\ Written(i, address, new_fields).fs.fields[i].address
                        = fs.fields[i].address
                  /\ \E j \in i..(i + 1) :
                        /\ Written(i, address, new_fields).fs.fields[j].address = address
                        /\ Written(i, address, new_fields).fs.fields[j].size
                              = new_fields[1].size
                  /\ Sizes(SubSeq(Written(i, address, new_fields).fs.fields, i,
                                  i + Len(Written(i, address, new_fields).replace) - 1))
                        = WindowSizes(i, address, new_fields)
                  /\ Tiles(fs) => Tiles(Written(i, address, new_fields).fs)

\* a write in the middle of a child left a padding on both sides of the new
\* field
C23_Witness ==
    /\ ret.op = "writeFieldsIn" /\ ret.exc = "none"
    /\ \E i \in 1..(Len(fs.fields) - 2) :
          /\ SubSeq(fs.fields[i].name, 1, 1) = <<"p">>
          /\ Len(fs.fields[i].name) = 10
          /\ SubSeq(fs.fields[i + 2].name, 1, 1) = <<"p">>
          /\ Len(fs.fields[i + 2].name) = 10
          /\ fs.fields[i].size = 1 /\ fs.fields[i + 2].size = 1
          /\ fs.fields[i + 1].src = 0
          /\ fs.fields[i + 1].size = 1
          /\ fs.fields[i + 1].address = fs.fields[i].address + 1

\* the new fields do not fit in the i-th child: their total size exceeds its
\* size, or address + total size runs past its end
DoesNotFit(i, address, new_fields) ==
    \/ SumSizes(new_fields) > fs.fields[i].size
    \/ address + SumSizes(new_fields) > fs.fields[i].address + fs.fields[i].size

\* C24: writeFieldsIn fails with ParserError and leaves the children
\* unchanged whenever the new fields do not fit in the old field, both when
\* their total size exceeds old.size and when address + total size runs past
\* the end of old.
C24_NoFitIsParserError ==
    \A i \in 1..Len(fs.fields), address \in WriteAddresses, new_fields \in NewFields :
        DoesNotFit(i, address, new_fields) =>
            /\ Written(i, address, new_fields).exc = "Error"
            /\ Written(i, address, new_fields).fs.fields = fs.fields

\* the field set under study and its composite children, each with its place
Placed ==
    {<<fs, up>>}
        \cup {<<fs.fields[i].fs,
                [address |-> fs.fields[i].address, ancestors |-> Chain(fs, up)]>> :
                  i \in {j \in 1..Len(fs.fields) : fs.fields[j].is_field_set}}

\* index in the chain self, parent, ..., root of the nearest set whose size
\* is known, 0 if there is none
Bounded(chain) ==
    IF \E k \in 1..Len(chain) : chain[k].size # None
    THEN CHOOSE k \in 1..Len(chain) :
             /\ chain[k].size # None
             /\ \A j \in 1..(k - 1) : chain[j].size = None
    ELSE 0

RECURSIVE SumAddresses(_, _)
\* the addresses of the first n sets of the chain, added
SumAddresses(chain, n) ==
    IF n = 0 THEN 0 ELSE chain[n].address + SumAddresses(chain, n - 1)

\* C25: eof is true exactly when current_size + 1, measured from the start of
\* the nearest ancestor-or-self of known size by adding the addresses of the
\* unbounded sets in between, exceeds that size; for a set of known size eof
\* is current_size >= size; with no bounded ancestor eof is decided by
\* sizeGe on the root stream.
C25_EofIsPastCap ==
    \A p \in Placed :
        /\ ~eof(p[1], p[2]).err
        /\ Bounded(Chain(p[1], p[2])) > 0 =>
              (eof(p[1], p[2]).v <=>
                  p[1].current_size + 1
                      + SumAddresses(Chain(p[1], p[2]), Bounded(Chain(p[1], p[2])) - 1)
                    > Chain(p[1], p[2])[Bounded(Chain(p[1], p[2]))].size)
        /\ p[1].size # None => (eof(p[1], p[2]).v <=> p[1].current_size >= p[1].size)
        /\ Bounded(Chain(p[1], p[2])) = 0 =>
              (eof(p[1], p[2]).v <=>
                  ~sizeGe(p[1].current_size + 1
                              + SumAddresses(Chain(p[1], p[2]),
                                             Len(Chain(p[1], p[2])) - 1)))

\* the same with the unbounded case left out: what holds of the code
C25_EofBounded ==
    \A p \in Placed :
        /\ Bounded(Chain(p[1], p[2])) > 0 =>
              /\ ~eof(p[1], p[2]).err
              /\ eof(p[1], p[2]).v <=>
                  p[1].current_size + 1
                      + SumAddresses(Chain(p[1], p[2]), Bounded(Chain(p[1], p[2])) - 1)
                    > Chain(p[1], p[2])[Bounded(Chain(p[1], p[2]))].size
        /\ p[1].size # None => (eof(p[1], p[2]).v <=> p[1].current_size >= p[1].size)
        /\ Bounded(Chain(p[1], p[2])) = 0 =>
              /\ sizeGe(p[1].current_size + 1
                            + SumAddresses(Chain(p[1], p[2]), Len(Chain(p[1], p[2])) - 1))
                    => (~eof(p[1], p[2]).err /\ ~eof(p[1], p[2]).v)
              /\ ~sizeGe(p[1].current_size + 1
                            + SumAddresses(Chain(p[1], p[2]), Len(Chain(p[1], p[2])) - 1))
                    => eof(p[1], p[2]).err

\* names and sizes of the children of s, in order
NamedSizes(s) ==
    [i \in 1..Len(s.fields) |-> <<s.fields[i].name, s.fields[i].size>>]

\* the children a Float of the given size is to have
FloatLayout(size) ==
    IF size = 32 THEN <<<<FloatName.negative, 1>>, <<FloatName.exponent, 8>>, <<FloatName.mantissa, 23>>>>
    ELSE IF size = 64 THEN <<<<FloatName.negative, 1>>, <<FloatName.exponent, 11>>, <<FloatName.mantissa, 52>>>>
    ELSE <<<<FloatName.negative, 1>>, <<FloatName.exponent, 15>>, <<FloatName.one, 1>>, <<FloatName.mantissa, 63>>>>

\* the bits of the i-th child of the Float, read at its address
FieldBits(i) ==
    readBitSeq(fs.stream, up.address + fs.fields[i].address, fs.fields[i].size,
               fs.endian)

\* C26: Float32, Float64 and Float80 yield negative (1 bit), exponent
\* (8/11/15 bits), for Float80 the bit 'one', and mantissa (23/52/63 bits);
\* the sizes sum to the static size 32/64/80, so the composite seals with
\* current_size = size and nothing repaired; the big-endian Float64 over
\* c0 00 00 00 00 00 00 00 has size 64, sign bit 1, biased exponent 1024
\* and mantissa bits 0.
C26_FloatLayout ==
    /\ fs.size \in {32, 64, 80}
    /\ ret.exc = "none"
    /\ IsPrefix(NamedSizes(fs), FloatLayout(fs.size))
    /\ \A i \in 1..Len(fs.fields) : fs.fields[i].src = i
    /\ Tiles(fs)
    /\ SumSizes(fs.prog) = fs.size
    /\ Sealed(fs) =>
          /\ NamedSizes(fs) = FloatLayout(fs.size)
          /\ fs.current_size = fs.size
    /\ (Sealed(fs) /\ fs.size = 64 /\ fs.endian = "BIG_ENDIAN"
            /\ SubSeq(fs.stream, 1, 8) = <<192, 0, 0, 0, 0, 0, 0, 0>>) =>
          /\ bitsValue(FieldBits(1)) = 1
          /\ bitsValue(FieldBits(2)) = 1024
          /\ FieldBits(3) = [i \in 1..52 |-> 0]

\* a big-endian Float64 over c0 00 00 00 00 00 00 00 fed to its end with
\* auto-fix off
C26_Witness ==
    /\ Sealed(fs) /\ fs.size = 64 /\ fs.endian = "BIG_ENDIAN"
    /\ SubSeq(fs.stream, 1, 8) = <<192, 0, 0, 0, 0, 0, 0, 0>>
    /\ Len(fs.fields) = 3
    /\ ~autofix

\* the header values of the file under study
DataOfs == readUInt(fs.stream, 32, 32)
DataSize == readUInt(fs.stream, 32, 64)

\* the children an AuFile is to have
AuLayout ==
    <<<<AuName.signature, 32>>, <<AuName.data_ofs, 32>>, <<AuName.data_size, 32>>, <<AuName.codec, 32>>,
      <<AuName.sample_rate, 32>>, <<AuName.channels, 32>>>>
        \o (IF DataOfs > 24 THEN <<<<AuName.info, 8 * (DataOfs - 24)>>>> ELSE <<>>)
        \o <<<<AuName.audio_data, 8 * DataSize>>>>

\* the file holds every field its producer yields
WholeFile == SumSizes(fs.prog) = fs.size

\* C27: AuFile yields signature and data_ofs, data_size, codec, sample_rate,
\* channels (4 bytes each), 'info' of data_ofs - 24 bytes iff data_ofs > 24,
\* then audio_data of data_size bytes, so that audio_data starts at byte
\* data_ofs and the children's sizes sum to createContentSize() =
\* (data_ofs + data_size) * 8 bits, 448 for data_ofs = 24 and data_size = 32,
\* for every header value of data_ofs and data_size.
C27_AuLayout ==
    (WholeFile /\ Sealed(fs)) =>
        /\ NamedSizes(fs) = AuLayout
        /\ fs.fields[Len(fs.fields)].address = 8 * DataOfs
        /\ fs.current_size = createContentSize(fs.stream)
        /\ createContentSize(fs.stream) = (DataOfs + DataSize) * 8
        /\ (DataOfs = 24 /\ DataSize = 32) => fs.current_size = 448

\* the same for the header values with data_ofs >= 24
C27_AuLayoutFrom24 ==
    (WholeFile /\ Sealed(fs) /\ DataOfs >= 24) =>
        /\ NamedSizes(fs) = AuLayout
        /\ fs.fields[Len(fs.fields)].address = 8 * DataOfs
        /\ fs.current_size = createContentSize(fs.stream)
        /\ (DataOfs = 24 /\ DataSize = 32) => fs.current_size = 448

\* the stream begins FF D8 FF E0 00 10 "JFIF\0" ... FF DB and holds the
\* third chunk's size
IsJfif ==
    /\ Len(fs.stream) >= Len(JfifHead) + 2
    /\ SubSeq(fs.stream, 1, Len(JfifHead)) = JfifHead

\* the value of the field 'type' of the i-th child
ChunkType(i) ==
    readUInt(fs.stream, 8, fs.fields[i].address + fs.fields[i].fs.fields[2].address)

\* the first three children are chunks of type 0xD8, 0xE0 and 0xDB in stream
\* order: the first of 16 bits holding header and type only, the second with
\* a composite 'content' whose first child, once fed, is 'jfif' over "JFIF\0"
ChunkWalk ==
    /\ \A i \in 1..3 : fs.fields[i].is_field_set /\ fs.fields[i].src = i
    /\ fs.fields[1].address = 0 /\ fs.fields[2].address = 16 /\ fs.fields[3].address = 160
    /\ ChunkType(1) = 216 /\ ChunkType(2) = 224 /\ ChunkType(3) = 219
    /\ fs.fields[1].size = 16
    /\ NamedSizes(fs.fields[1].fs) = <<<<JpegName.header, 8>>, <<JpegName.type, 8>>>>
    /\ SubSeq(NamedSizes(fs.fields[2].fs), 1, 3)
          = <<<<JpegName.header, 8>>, <<JpegName.type, 8>>, <<JpegName.size, 16>>>>
    /\ Len(fs.fields[2].fs.fields) = 4
    /\ fs.fields[2].fs.fields[4].name = JpegName.content
    /\ fs.fields[2].fs.fields[4].is_field_set
    /\ fs.fields[2].fs.fields[4].fs.fields # <<>> =>
          /\ fs.fields[2].fs.fields[4].fs.fields[1].name = JpegName.jfif
          /\ readBytes(fs.stream,
                       fs.fields[2].address + fs.fields[2].fs.fields[4].address
                           + fs.fields[2].fs.fields[4].fs.fields[1].address,
                       fs.fields[2].fs.fields[4].fs.fields[1].size \div 8)
                = <<74, 70, 73, 70, 0>>

\* C28: parsing a JPEG stream beginning FF D8 FF E0 00 10 "JFIF\0" ... FF DB
\* gives the top-level children chunk[0], chunk[1], chunk[2], in stream
\* order, of type 0xD8 (16 bits, no size or content), 0xE0 (with nested
\* content/jfif = "JFIF\0") and 0xDB.
C28_ChunkWalk ==
    (IsJfif /\ Len(fs.fields) >= 3) =>
        /\ ChunkWalk
        /\ fs.fields[1].name = <<"c", "h", "u", "n", "k", "[", "0", "]">>
        /\ fs.fields[2].name = <<"c", "h", "u", "n", "k", "[", "1", "]">>
        /\ fs.fields[3].name = <<"c", "h", "u", "n", "k", "[", "2", "]">>

\* the same with the names the chunks are stored under: soi, app0, dqt[0]
C28_ChunkWalkRenamed ==
    (IsJfif /\ Len(fs.fields) >= 3) =>
        /\ ChunkWalk
        /\ fs.fields[1].name = JpegName.soi
        /\ fs.fields[2].name = JpegName.app0
        /\ fs.fields[3].name = <<"d", "q", "t", "[", "0", "]">>

\* the three chunks stored and the content of the second fed
C28_Reached ==
    /\ IsJfif /\ Len(fs.fields) >= 3
    /\ Len(fs.fields[2].fs.fields) = 4
    /\ Sealed(fs.fields[2].fs.fields[4].fs)
    /\ Len(fs.fields[2].fs.fields[4].fs.fields) = 8

\* the field set has no known size, is not sealed, and its producer has
\* nothing left to yield
ExhaustedUnknown == fs.size = None /\ ~Sealed(fs) /\ fs.gen >= Len(fs.prog)

\* C29: when the producer of a field set of unknown size is exhausted, a set
\* that has a parent gets size = current_size and is sealed, a root set is
\* sealed with its size left unknown, and in both cases no child is added or
\* removed; the size read afterwards is that size.
C29_ExhaustedUnknownSeals ==
    ExhaustedUnknown =>
        /\ OnePull.exc = "none"
        /\ OnePull.val = <<>>
        /\ Sealed(OnePull.fs)
        /\ OnePull.fs.fields = fs.fields
        /\ OnePull.fs.current_size = fs.current_size
        /\ up.ancestors # <<>> => OnePull.fs.size = fs.current_size
        /\ up.ancestors = <<>> => OnePull.fs.size = None
        /\ OnePull.fs = stopFeeding(fs, up, autofix).fs
        /\ getSize(fs, up, autofix).exc = "none"
        /\ getSize(fs, up, autofix).n = OnePull.fs.size
        /\ getSize(fs, up, autofix).fs = OnePull.fs

\* a root of unknown size whose producer was exhausted: sealed, every yield
\* stored, the size still unknown
C29_Witness ==
    /\ size0 = None /\ up.ancestors = <<>>
    /\ Sealed(fs) /\ fs.size = None
    /\ ret.exc = "none"
    /\ Len(fs.prog) > 1
    /\ [i \in 1..Len(fs.fields) |-> fs.fields[i].src] = [i \in 1..Len(fs.prog) |-> i]

\* the yielded child placed at current_size, as line 259 leaves it
Yielded == [NextYield.field[1] EXCEPT !.address = NextYield.fs.current_size]

\* where the yielded child is
YieldedUp == [address |-> NextYield.fs.current_size, ancestors |-> Chain(fs, up)]

\* line 264: field.size queried for the first time
FirstQuery == fieldSize(Yielded, YieldedUp, autofix)

\* the producer yields a child and querying its size raises
SizeQueryRaises ==
    /\ fs.gen # None
    /\ NextYield.out = "yield"
    /\ FirstQuery.exc = "Error"

\* line 266: the child is a composite that holds a child and is at eof
Rescued ==
    /\ FirstQuery.field.is_field_set
    /\ Len(FirstQuery.field.fs.fields) >= 1
    /\ ~eof(FirstQuery.field.fs, YieldedUp).err
    /\ eof(FirstQuery.field.fs, YieldedUp).v

\* the child is sealed and appended, _addField raises StopIteration, and the
\* round seals the parent
AppendedAndStopped ==
    /\ TryBlock.exc = "StopIteration"
    /\ Len(TryBlock.fs.fields) = Len(fs.fields) + 1
    /\ IsPrefix(Children(fs), Children(TryBlock.fs))
    /\ TryBlock.fs.fields[Len(TryBlock.fs.fields)].src = fs.gen + 1
    /\ TryBlock.fs.fields[Len(TryBlock.fs.fields)].is_field_set
    /\ Sealed(TryBlock.fs.fields[Len(TryBlock.fs.fields)].fs)
    /\ Children(TryBlock.fs.fields[Len(TryBlock.fs.fields)].fs)
          = Children(FirstQuery.field.fs)
    /\ OnePull.out = "stopped"
    /\ Sealed(OnePull.fs)
    /\ IsPrefix(Children(TryBlock.fs), Children(OnePull.fs))

\* the error leaves _addField and the child is not appended
PropagatedNotAppended ==
    /\ TryBlock.exc = "Error"
    /\ Children(TryBlock.fs) = Children(fs)

\* C30: if querying a yielded child's size raises and the child is a
\* composite that holds at least one child and is at eof, the child is
\* sealed and still appended and the parent's producer is stopped (the
\* parent seals); in every other case the error propagates and the child is
\* not appended.
C30_SizeErrorRescue ==
    SizeQueryRaises =>
        IF Rescued THEN AppendedAndStopped ELSE PropagatedNotAppended

\* the same for a child that holds at least one bit when its size is queried
C30_SizeErrorRescueOfBits ==
    (SizeQueryRaises /\ (Rescued => FirstQuery.field.fs.current_size > 0)) =>
        IF Rescued THEN AppendedAndStopped ELSE PropagatedNotAppended

\* sizes _truncate is called with
TruncateSizes == 1..(MaxYield * MaxLeafSize)

\* the children of s before the child that holds bit size - 1, which is the
\* child that straddles or ends at the boundary
Before(s, size) ==
    SubSeq(s.fields, 1,
           (CHOOSE i \in 1..Len(s.fields) :
               /\ s.fields[i].address < size
               /\ \A j \in (i + 1)..Len(s.fields) : s.fields[j].address >= size) - 1)

\* the child of s that straddles or ends at the boundary
Straddler(s, size) == s.fields[Len(Before(s, size)) + 1]

\* C31: _truncate(size) with 0 < size < current_size leaves the set sealed
\* with size = current_size = the new size and its children tiling [0, size):
\* the children starting at or after the boundary are dropped, and the child
\* straddling it is truncated recursively if composite, else replaced by one
\* raw field of the exact remainder.
C31_TruncateTiles ==
    \A s \in AllSets(fs), size \in TruncateSizes :
        (size < s.current_size /\ Tiles(s)) =>
            /\ truncate(s, size).exc = "none"
            /\ Sealed(truncate(s, size).fs)
            /\ truncate(s, size).fs.size = size
            /\ truncate(s, size).fs.current_size = size
            /\ Tiles(truncate(s, size).fs)
            /\ Len(truncate(s, size).fs.fields) = Len(Before(s, size)) + 1
            /\ SubSeq(truncate(s, size).fs.fields, 1, Len(Before(s, size)))
                  = Before(s, size)
            /\ truncate(s, size).fs.fields[Len(Before(s, size)) + 1].address
                  = Straddler(s, size).address
            /\ truncate(s, size).fs.fields[Len(Before(s, size)) + 1].size
                  = size - Straddler(s, size).address
            /\ Straddler(s, size).address + Straddler(s, size).size = size =>
                  truncate(s, size).fs.fields[Len(Before(s, size)) + 1]
                      = Straddler(s, size)
            /\ (Straddler(s, size).address + Straddler(s, size).size > size
                    /\ ~Straddler(s, size).is_field_set) =>
                  /\ ~truncate(s, size).fs.fields[Len(Before(s, size)) + 1].is_field_set
                  /\ truncate(s, size).fs.fields[Len(Before(s, size)) + 1].name = RawName
            /\ (Straddler(s, size).address + Straddler(s, size).size > size
                    /\ Straddler(s, size).is_field_set) =>
                  /\ truncate(s, size).fs.fields[Len(Before(s, size)) + 1].name
                        = Straddler(s, size).name
                  /\ truncate(s, size).fs.fields[Len(Before(s, size)) + 1].fs
                        = truncate(Straddler(s, size).fs,
                                   size - Straddler(s, size).address).fs

\* a stored composite child of three bits with two children, which
\* _truncate(1) and _truncate(2) cut inside a child and at a child's end,
\* after a stored leaf
C31_Witness ==
    \E i \in 2..Len(fs.fields) :
        /\ fs.fields[i].is_field_set
        /\ fs.fields[i].fs.current_size = 3
        /\ Len(fs.fields[i].fs.fields) = 2
        /\ Tiles(fs.fields[i].fs)
        /\ Tiles(fs)

\* the assertions of _truncate fail
Panics(s, size) == truncate(s, size).exc = "AssertionError"

\* C32: _truncate(size) with size > 0 panics if and only if
\* size > current_size and size >= the known size; in particular
\* _truncate(current_size) does not panic.
C32_PanicIff ==
    \A s \in AllSets(fs), size \in TruncateSizes :
        Panics(s, size) <=>
            (size > s.current_size /\ s.size # None /\ size >= s.size)

\* C32: _truncate(size) with size > 0 panics if and only if
\* size >= current_size and size >= the known size.
C32_PanicIffNotBelow ==
    \A s \in AllSets(fs), size \in TruncateSizes :
        Panics(s, size) <=>
            (size >= s.current_size /\ s.size # None /\ size >= s.size)

\* C32: after a call of _truncate that does not panic the size of the set is
\* the requested size, which is at most the size it had when that was known,
\* and the set holds no child it did not hold and no bit past the size it had.
C32_NeverGrows ==
    \A s \in AllSets(fs), size \in TruncateSizes :
        (Tiles(s) /\ ~Panics(s, size)) =>
            /\ truncate(s, size).exc = "none"
            /\ truncate(s, size).fs.size = size
            /\ s.size # None => size <= s.size
            /\ truncate(s, size).fs.current_size <= s.current_size
            /\ Len(truncate(s, size).fs.fields) <= Len(s.fields)

\* a sealed set of known size, and an active one with room left, are reached
C32_Witness ==
    /\ fs.size # None
    /\ fs.current_size = fs.size
    /\ fs.current_size \in TruncateSizes
    /\ \E i \in 1..Len(fs.fields) :
          /\ fs.fields[i].is_field_set
          /\ fs.fields[i].fs.size # None
          /\ fs.fields[i].fs.current_size < fs.fields[i].fs.size

RECURSIVE iterRun(_, _, _, _)
\* next() on an iterator until it raises: the last outcome [fs, it, val, exc]
iterRun(s, u, af, i) ==
    IF iterNext(s, u, af, i).exc # "none" \/ iterNext(s, u, af, i).it.pc = "hang"
    THEN iterNext(s, u, af, i)
    ELSE iterRun(iterNext(s, u, af, i).fs, u, af, iterNext(s, u, af, i).it)

\* a new iterator over the field set, run to exhaustion
Exhausted == iterRun(fs, up, autofix, NewIter)

\* the names of fields, in index order
FieldNames(fields) == [i \in 1..Len(fields) |-> fields[i].name]

RECURSIVE IsSubsequence(_, _)
\* a is b with some of its elements left out
IsSubsequence(a, b) ==
    IF a = <<>> THEN TRUE
    ELSE IF b = <<>> THEN FALSE
    ELSE IF a[1] = b[1] THEN IsSubsequence(Tail(a), Tail(b))
    ELSE IsSubsequence(a, Tail(b))

\* C33: an iterator run until it ends (StopIteration) has yielded every child
\* of the final, sealed set exactly once and in index order, and nothing else.
C33_IterYieldsAll ==
    Exhausted.exc = "StopIteration" =>
        /\ Sealed(Exhausted.fs)
        /\ Exhausted.it.out = FieldNames(Exhausted.fs.fields)

\* C33: an iterator run until it ends has yielded children of the final,
\* sealed set only, each at most once and in index order.
C33_IterYieldsSome ==
    Exhausted.exc = "StopIteration" =>
        /\ Sealed(Exhausted.fs)
        /\ IsSubsequence(Exhausted.it.out, FieldNames(Exhausted.fs.fields))

\* the iteration ends after it has yielded a padding field
C33_Witness ==
    /\ Exhausted.exc = "StopIteration"
    /\ Len(Exhausted.it.out) >= 2
    /\ Exhausted.it.out[Len(Exhausted.it.out)] = RawName
    /\ Exhausted.it.out = FieldNames(Exhausted.fs.fields)

\* this step ends iterator i (i2 after the step) with StopIteration
Ends(i, i2, op) ==
    /\ i.pc # "end"
    /\ i2.pc = "end"
    /\ ret'.op = op
    /\ ret'.exc = "StopIteration"

\* the producer is not restarted and does not step back: no child is pulled twice
PulledOnce ==
    IF fs.gen = None THEN fs'.gen = None
    ELSE fs'.gen = None \/ fs'.gen >= fs.gen

\* C34: with two iterators, lookups and readMoreFields calls interleaved, an
\* iterator that ends has yielded every child of the set exactly once and in
\* index order, and the producer is never pulled twice for the same child.
C34_SharedIteration ==
    [][/\ Ends(it, it', "next") => it'.out = FieldNames(fs'.fields)
       /\ Ends(it2, it2', "next2") => it2'.out = FieldNames(fs'.fields)
       /\ PulledOnce]_vars

\* C34: in any interleaving what an iterator has yielded are children of the
\* set, each at most once and in index order, the producer is never pulled
\* twice for the same child, and two iterators that ended have yielded the
\* same children up to the child appended by the pull that stopped the feed.
C34_SharedIterationYields ==
    [][/\ IsSubsequence(it'.out, FieldNames(fs'.fields))
       /\ IsSubsequence(it2'.out, FieldNames(fs'.fields))
       /\ PulledOnce]_vars

\* both iterators ended after each yielded two children or more, while
\* the other was suspended inside its iteration
C34_Witness ==
    /\ it.pc = "end"
    /\ it2.pc = "end"
    /\ Len(it.out) >= 2
    /\ it.out = it2.out
    /\ it.out = FieldNames(fs.fields)
    /\ ret.exc = "StopIteration"

\* the next pull raises to the caller
PullFails == fs.gen # None /\ OnePull.out = "raise"

\* C35: a pull that raises to the caller leaves the field set not sealed, with
\* the stored children and the current_size it had before the pull, so that
\* current_size is still the sum of the sizes of the stored children.
C35_FailedPullLeavesSet ==
    PullFails =>
        /\ ~autofix \/ fs.size = None
        /\ ~Sealed(OnePull.fs)
        /\ OnePull.fs.fields = fs.fields
        /\ OnePull.fs.current_size = fs.current_size
        /\ fs.current_size = SumSizes(fs.fields) =>
              OnePull.fs.current_size = SumSizes(OnePull.fs.fields)

\* C35: a pull that raises to the caller leaves the field set not sealed and
\* with the stored children it had before the pull.
C35_FailedPullKeepsChildren ==
    PullFails =>
        /\ ~autofix \/ fs.size = None
        /\ ~Sealed(OnePull.fs)
        /\ OnePull.fs.fields = fs.fields

\* a pull fails on a set that holds children
C35_Witness ==
    /\ PullFails
    /\ Len(fs.fields) >= 2
    /\ OnePull.fs.current_size = fs.current_size

\* replaceField(name, new_fields) passes the tests of lines 551-559: name is a
\* child and the sizes of new_fields add up to its size
Replaceable(name, new_fields) ==
    /\ DictHas(fs.fields, name)
    /\ Len(new_fields) >= 1
    /\ fs.fields[DictIndex(fs.fields, name) + 1].size = SumSizes(new_fields)

\* C36: when replaceField raises ParserError because a new field has a name
\* that another child uses, the children are those before the call and no
\* 'field-replaced' or 'field-insered' event was raised.
C36_ReplaceAllOrNothing ==
    \A name \in DictKeys(fs.fields), new_fields \in NewFields :
        (Replaceable(name, new_fields) /\ Replaced(name, new_fields).exc = "Error") =>
            /\ Replaced(name, new_fields).fs.fields = fs.fields
            /\ Replaced(name, new_fields).events = <<>>

\* C36: when the first new field has a name that another child uses,
\* replaceField raises ParserError, the children are those before the call
\* and no event was raised.
C36_FirstNameCollision ==
    \A name \in DictKeys(fs.fields), new_fields \in NewFields :
        (/\ Replaceable(name, new_fields)
         /\ new_fields[1].name # name
         /\ DictHas(fs.fields, new_fields[1].name)) =>
            /\ Replaced(name, new_fields).exc = "Error"
            /\ Replaced(name, new_fields).fs.fields = fs.fields
            /\ Replaced(name, new_fields).events = <<>>

\* a replacement by one field whose name is used is refused while listeners
\* of both events are connected
C36_Witness ==
    /\ "field-replaced" \in fs.event_handler.names
    /\ "field-insered" \in fs.global_event_handler.names
    /\ \E name \in DictKeys(fs.fields), new_fields \in NewFields :
          /\ Replaceable(name, new_fields)
          /\ new_fields[1].name # name
          /\ DictHas(fs.fields, new_fields[1].name)

\* the producer yields a composite child and _addField appends it
CompositeAppended ==
    /\ fs.gen # None
    /\ NextYield.out = "yield"
    /\ NextYield.field[1].is_field_set
    /\ TryBlock.exc \in {"none", "StopIteration"}
    /\ Len(TryBlock.fs.fields) = Len(fs.fields) + 1

\* the child _addField has just appended
AppendedChild == TryBlock.fs.fields[Len(TryBlock.fs.fields)]

\* every stored child of s has a known size, which for a composite child is
\* the size of its field set
SizesKnown(s) ==
    \A i \in 1..Len(s.fields) :
        /\ s.fields[i].size # None
        /\ s.fields[i].size >= 0
        /\ s.fields[i].is_field_set => s.fields[i].fs.size = s.fields[i].size

\* C37: every stored child has a known size; a composite child made without a
\* size is fed completely and sealed when it is appended, and a composite
\* child made with a size that fits is appended as it was yielded, none of its
\* own children pulled.
C37_ChildSizeKnown ==
    /\ \A s \in AllSets(fs) : SizesKnown(s)
    /\ CompositeAppended =>
          /\ SizesKnown(TryBlock.fs)
          /\ IF NextYield.field[1].fs.size = None
             THEN /\ Sealed(AppendedChild.fs)
                  /\ AppendedChild.fs.current_size = AppendedChild.fs.size
                  /\ AppendedChild.size = SumSizes(AppendedChild.fs.fields)
             ELSE (YieldRoom.none \/ YieldRoom.v >= 0) =>
                      AppendedChild.fs = NextYield.field[1].fs

\* a composite child without a size, whose producer yields two children, is
\* about to be appended after a leaf
C37_Witness ==
    /\ CompositeAppended
    /\ Len(fs.fields) >= 1
    /\ NextYield.field[1].fs.size = None
    /\ Len(AppendedChild.fs.fields) = 2
    /\ TryBlock.exc = "none"

\* a composite child with a size that fits is about to be appended with its
\* producer not started
C37_WitnessDeclared ==
    /\ CompositeAppended
    /\ NextYield.field[1].fs.size # None
    /\ AppendedChild.fs.fields = <<>>
    /\ AppendedChild.fs.gen # None
    /\ AppendedChild.size = 3

\* a step that stores one more child raises current_size by one bit at least
Grows ==
    (fs'.gen # None /\ Len(fs'.fields) > Len(fs.fields)) =>
        fs'.current_size > fs.current_size

\* readMoreFields(1) changes a field set that is not sealed
PullMoreEnabled == ~Sealed(fs) => readMoreFields(fs, up, autofix, 1).fs # fs

\* C38: with auto-fix on and a known size, a field set whose producer is
\* "while not eof: yield child" is sealed by repeated pulls, with
\* current_size = size; until then every pull that stores a child raises
\* current_size.
C38_LoopSeals ==
    /\ [][(autofix /\ fs.size # None) => Grows]_vars
    /\ (autofix /\ fs.size # None) ~> (Sealed(fs) /\ fs.current_size = fs.size)

\* a loop that stored three children or more is sealed at its size
C38_Witness ==
    /\ autofix
    /\ size0 # None
    /\ Sealed(fs)
    /\ fs.current_size = fs.size
    /\ Len(fs.fields) >= 3
    /\ fs.prog[Len(fs.prog)].kind = "while"

\* self["type"].value and self["count"].value of the entry
EntryType == readUInt(fs.stream, 16, 16)

EntryCount == readUInt(fs.stream, 32, 32)

\* the entry has been read to its end
EntryRead == Sealed(fs) /\ ret.exc = "none" /\ fs.fields # <<>>

\* C39: every IFD entry with a count that is not zero occupies 96 bits: tag
\* (16), type (16), count (32) and 32 bits that hold the offset, or the
\* value(s) and a padding up to 32 bits, for every type and count.
C39_EntryIs96Bits ==
    (EntryRead /\ EntryCount # 0) =>
        /\ fs.current_size = 96
        /\ fs.size = 96
        /\ Tiles(fs)

\* C39: an IFD entry with a count that is not zero occupies 96 bits unless it
\* holds 2 or 3 values of type BYTE, which occupies 64 + 8 * count bits.
C39_EntryIs96BitsButBytes ==
    (EntryRead /\ EntryCount # 0) =>
        /\ fs.current_size = IF EntryType = 1 /\ EntryCount \in {2, 3}
                             THEN 64 + 8 * EntryCount ELSE 96
        /\ fs.size = fs.current_size
        /\ Tiles(fs)

\* an entry of two SHORT values read to its end: two values[] and no padding
C39_Witness ==
    /\ EntryRead
    /\ EntryType = 3
    /\ EntryCount = 2
    /\ Len(fs.fields) = 5
    /\ fs.current_size = 96

====
